---- MODULE Spec2Model ----
(***************************************************************************)
(* A model of the research loop of trustcollier/research_agent             *)
(* (src/research_agent/research_loop.py): run_research, the search retry   *)
(* policy, the cache store, source dedup/filter/compaction and citation    *)
(* validation.                                                             *)
(*                                                                         *)
(* Text is modelled as a sequence of one-character strings, so that        *)
(* len(), lower(), split()/join(), the `in` substring test and string      *)
(* ordering are computed and not assumed.  Long literals of the program    *)
(* (query suffixes) are shortened to their first word; every shortened     *)
(* literal says so where it is defined.                                    *)
(***************************************************************************)
EXTENDS Integers, Sequences, FiniteSets, TLC

\* ------------------------------------------------------------------ text

Max(a, b) == IF a >= b THEN a ELSE b
Min(a, b) == IF a <= b THEN a ELSE b

\* The characters the model uses, in ASCII order (str comparison in sorted()).
AsciiOrder ==
    << "\n", " ", "(", ")", "-", ".", "0", "1", "2", "3", "4", "5", "6", "7",
       "8", "9", ":", "A", "B", "C", "D", "E", "F", "G", "H", "I", "J", "K",
       "L", "M", "N", "O", "P", "Q", "R", "S", "T", "U", "V", "W", "X", "Y",
       "Z", "[", "]", "a", "b", "c", "d", "e", "f", "g", "h", "i", "j", "k",
       "l", "m", "n", "o", "p", "q", "r", "s", "t", "u", "v", "w", "x", "y",
       "z" >>

CharOrd(c) == CHOOSE i \in 1..Len(AsciiOrder) : AsciiOrder[i] = c

UpperLetters ==
    << "A", "B", "C", "D", "E", "F", "G", "H", "I", "J", "K", "L", "M", "N",
       "O", "P", "Q", "R", "S", "T", "U", "V", "W", "X", "Y", "Z" >>

LowerLetters ==
    << "a", "b", "c", "d", "e", "f", "g", "h", "i", "j", "k", "l", "m", "n",
       "o", "p", "q", "r", "s", "t", "u", "v", "w", "x", "y", "z" >>

\* str.lower() on one character.
LowerChar(c) ==
    IF \E i \in 1..26 : UpperLetters[i] = c
    THEN LowerLetters[CHOOSE i \in 1..26 : UpperLetters[i] = c]
    ELSE c

\* str.lower()
Lower(s) == [i \in 1..Len(s) |-> LowerChar(s[i])]

\* str.isspace() on one character.
IsSpace(c) == c \in {" ", "\n"}

\* `sub in s` for strings: sub occurs in s as a contiguous run.
Contains(s, sub) ==
    \E i \in 0..(Len(s) - Len(sub)) :
        \A j \in 1..Len(sub) : s[i + j] = sub[j]

\* s.startswith(prefix)
StartsWith(s, prefix) ==
    /\ Len(prefix) <= Len(s)
    /\ \A j \in 1..Len(prefix) : s[j] = prefix[j]

\* a < b for strings (lexicographic on character codes).
RECURSIVE StrLess(_, _)
StrLess(a, b) ==
    IF b = <<>> THEN FALSE
    ELSE IF a = <<>> THEN TRUE
    ELSE IF a[1] = b[1] THEN StrLess(Tail(a), Tail(b))
    ELSE CharOrd(a[1]) < CharOrd(b[1])

\* text.split(): the maximal runs of non-space characters.
RECURSIVE SplitWs(_, _, _)
SplitWs(s, cur, acc) ==
    IF s = <<>>
    THEN IF cur = <<>> THEN acc ELSE Append(acc, cur)
    ELSE IF IsSpace(s[1])
         THEN SplitWs(Tail(s), <<>>, IF cur = <<>> THEN acc ELSE Append(acc, cur))
         ELSE SplitWs(Tail(s), Append(cur, s[1]), acc)

Split(s) == SplitWs(s, <<>>, <<>>)

\* sep.join(parts)
RECURSIVE Join(_, _)
Join(parts, sep) ==
    IF parts = <<>> THEN <<>>
    ELSE IF Len(parts) = 1 THEN parts[1]
    ELSE parts[1] \o sep \o Join(Tail(parts), sep)

DecimalDigits == << "0", "1", "2", "3", "4", "5", "6", "7", "8", "9" >>

\* str(n) for n >= 0 (the f-string conversion of an int).
RECURSIVE IntToStr(_)
IntToStr(n) ==
    IF n < 10 THEN << DecimalDigits[n + 1] >>
    ELSE IntToStr(n \div 10) \o << DecimalDigits[(n % 10) + 1] >>

\* seq[start:] with Python's slice semantics (a negative start counts from the end).
PySliceFrom(seq, start) ==
    LET n    == Len(seq)
        from == IF start < 0 THEN Max(n + start, 0) ELSE Min(start, n)
    IN  SubSeq(seq, from + 1, n)

\* seq[:stop] with Python's slice semantics.
PySliceTo(seq, stop) ==
    LET n  == Len(seq)
        to == IF stop < 0 THEN Max(n + stop, 0) ELSE Min(stop, n)
    IN  SubSeq(seq, 1, to)

\* ------------------------------------------------------------- constants

DEFAULT_MAX_ITERS == 2
DEFAULT_MAX_QUERIES == 10
DEFAULT_MAX_SOURCES == 15
DEFAULT_MAX_RETRIES == 3
MIN_RESULTS_PER_QUERY == 3
DEFAULT_TOKEN_BUDGET == 120000
DEFAULT_COMPACT_KEEP_RECENT == 20
DEFAULT_LLM_MAX_TOKENS == 800

LOW_QUALITY_DOMAINS ==
    { << "p", "i", "e", "c", "h", "a", "r", "t", "m", "a", "k", "e", "r", ".",
       "c", "o", "m" >>,
      << "s", "q", "m", "a", "g", "a", "z", "i", "n", "e", ".", "c", "o", ".",
       "u", "k" >>,
      << "a", "a", "g", "-", "i", "t", ".", "c", "o", "m" >> }

BASIC_SYSTEM_PROMPT == "You are a helpful research assistant. Return JSON only."

\* The adapter's model name (OllamaAdapter.model).
DEFAULT_MODEL == "llama3.1:latest"

\* Python's None where a dict or an object is expected.  Where a list or a
\* string is expected None is modelled by the empty one, and where an int is
\* expected by 0: the program only tests these for truth.
None == [none |-> TRUE]

\* ------------------------------------------------ pure helper functions

\* _hash_text: SHA-256, taken as injective; a digest is never the empty string.
_hash_text(text) == [sha256 |-> text]

\* _run_id: the digest (its first 16 hex digits, taken as injective too) of the
\* stripped, lowercased, whitespace-collapsed task.
_run_id(task) == _hash_text(Join(Split(Lower(task)), << " " >>))

\* _llm_cache_key: the digest of the canonical (sort_keys) serialization.
_llm_cache_key(system, prompt, model, temperature, max_tokens) ==
    _hash_text([system |-> system, prompt |-> prompt, model |-> model,
                temperature |-> temperature, max_tokens |-> max_tokens])

\* _search_cache_key
_search_cache_key(query, limit) == _hash_text([query |-> query, limit |-> limit])

\* _render_prompt: the template with its three placeholders filled in; the
\* rendered text is determined by the template and the three arguments.
_render_prompt(template, task, sources, failed_queries) ==
    [template |-> template, task |-> task, sources |-> sources,
     failed_queries |-> failed_queries]

\* _to_agent_error with risks=[summary] for risks=[reason].
_to_agent_error_summary_risk(reason, raw) ==
    [summary |-> << "ERROR: ", reason >>, key_findings |-> <<>>,
     recommendations |-> <<>>, risks |-> << << "ERROR: ", reason >> >>,
     open_questions |-> <<>>, sources |-> <<>>, raw |-> raw, metadata |-> None]

\* _to_agent_error; summary is the pair of the "ERROR: " prefix and the reason.
_to_agent_error(reason, raw) ==
    [summary |-> << "ERROR: ", reason >>, key_findings |-> <<>>,
     recommendations |-> <<>>, risks |-> << reason >>, open_questions |-> <<>>,
     sources |-> <<>>, raw |-> raw, metadata |-> None]

\* _format_sources_for_reflection
_format_sources_for_reflection(sources) ==
    IF sources = <<>> THEN << "(", "n", "o", " ", "s", "o", "u", "r", "c", "e", "s", ")" >>
    ELSE Join([i \in 1..Len(sources) |->
                 << "-", " " >> \o sources[i].title \o << " ",
                       "(" >> \o sources[i].location \o << ")" >>],
              << "\n" >>)

\* _assign_source_ids
_assign_source_ids(sources) ==
    [idx \in 1..Len(sources) |->
        [id |-> << "[" >> \o IntToStr(idx) \o << "]" >>,
         title |-> sources[idx].title,
         type |-> sources[idx].type,
         location |-> sources[idx].location]]

\* _format_sources_for_synthesis
_format_sources_for_synthesis(sources) ==
    IF sources = <<>> THEN << "(", "n", "o", " ", "s", "o", "u", "r", "c", "e", "s", ")" >>
    ELSE LET assigned == _assign_source_ids(sources)
         IN  Join([i \in 1..Len(assigned) |->
                     assigned[i].id \o << " " >> \o assigned[i].title \o << "\n" >>
                     \o assigned[i].type \o << "\n" >> \o assigned[i].location \o << "\n" >>],
                  << "\n" >>)

\* _estimate_tokens
_estimate_tokens(text) == Max(1, Len(text) \div 4)

\* _compact_sources: (sources, omitted)
_compact_sources(sources, keep_recent) ==
    IF Len(sources) <= keep_recent
    THEN [sources |-> sources, omitted |-> 0]
    ELSE [sources |-> PySliceFrom(sources, 0 - keep_recent),
          omitted |-> Len(sources) - keep_recent]

\* The header both presentations prepend when they compact.
OmittedHeader(omitted) ==
    << "(", "o", "m", "i", "t", "t", "e", "d", " " >> \o IntToStr(omitted) \o << " ", "o", "l",
          "d", "e", "r", " ", "s", "o", "u", "r", "c", "e", "s", " ", "d", "u", "e", " ", "t",
          "o", " ", "c", "o", "n", "t", "e", "x", "t", " ", "b", "u", "d", "g", "e", "t", ")",
          "\n" >>

\* _build_reflection_sources: (text, compacted, omitted, remaining)
_build_reflection_sources(sources, token_budget, keep_recent) ==
    LET full_text == _format_sources_for_reflection(sources)
    IN  IF _estimate_tokens(full_text) <= token_budget
        THEN [text |-> full_text, compacted |-> FALSE, omitted |-> 0,
              remaining |-> token_budget - _estimate_tokens(full_text)]
        ELSE LET c            == _compact_sources(sources, keep_recent)
                 compact_text == _format_sources_for_reflection(c.sources)
                 header       == OmittedHeader(c.omitted)
                 final_text   == IF compact_text # <<>> THEN header \o compact_text
                                 ELSE header \o << "(", "n", "o", " ", "s", "o", "u", "r", "c",
                                       "e", "s", ")" >>
             IN  [text |-> final_text, compacted |-> TRUE, omitted |-> c.omitted,
                  remaining |-> Max(0, token_budget - _estimate_tokens(final_text))]

\* _build_synthesis_sources that compacts whatever the estimate is.
_build_synthesis_sources_always(sources, token_budget, keep_recent, force_compact) ==
    LET c            == _compact_sources(sources, keep_recent)
        compact_text == _format_sources_for_synthesis(c.sources)
        final_text   == OmittedHeader(c.omitted) \o compact_text
    IN  [sources |-> c.sources, text |-> final_text, compacted |-> TRUE,
         omitted |-> c.omitted,
         remaining |-> Max(0, token_budget - _estimate_tokens(final_text))]

\* _build_synthesis_sources: (sources, text, compacted, omitted, remaining)
_build_synthesis_sources(sources, token_budget, keep_recent, force_compact) ==
    LET full_text == _format_sources_for_synthesis(sources)
    IN  IF ~force_compact /\ _estimate_tokens(full_text) <= token_budget
        THEN [sources |-> sources, text |-> full_text, compacted |-> FALSE,
              omitted |-> 0,
              remaining |-> token_budget - _estimate_tokens(full_text)]
        ELSE LET c            == _compact_sources(sources, keep_recent)
                 compact_text == _format_sources_for_synthesis(c.sources)
                 header       == OmittedHeader(c.omitted)
                 final_text   == IF compact_text # <<>> THEN header \o compact_text
                                 ELSE header \o << "(", "n", "o", " ", "s", "o", "u", "r", "c",
                                       "e", "s", ")" >>
             IN  [sources |-> c.sources, text |-> final_text, compacted |-> TRUE,
                  omitted |-> c.omitted,
                  remaining |-> Max(0, token_budget - _estimate_tokens(final_text))]

\* DedupeFrom without the `key in seen` test.
RECURSIVE DedupeFromUnseen(_, _, _)
DedupeFromUnseen(sources, seen, deduped) ==
    IF sources = <<>> THEN deduped
    ELSE LET key == Head(sources).location
         IN  IF key = <<>>
             THEN DedupeFromUnseen(Tail(sources), seen, deduped)
             ELSE DedupeFromUnseen(Tail(sources), seen \cup {key},
                                   Append(deduped, Head(sources)))

\* DedupeFrom in which the last source of a location wins: a repeated
\* location replaces the source kept before.
RECURSIVE DedupeFromKeepLast(_, _, _)
DedupeFromKeepLast(sources, seen, deduped) ==
    IF sources = <<>> THEN deduped
    ELSE LET key == Head(sources).location
         IN  IF key = <<>>
             THEN DedupeFromKeepLast(Tail(sources), seen, deduped)
             ELSE DedupeFromKeepLast(
                      Tail(sources), seen \cup {key},
                      Append(SelectSeq(deduped, LAMBDA s : s.location # key),
                             Head(sources)))

\* _dedupe_sources
RECURSIVE DedupeFrom(_, _, _)
DedupeFrom(sources, seen, deduped) ==
    IF sources = <<>> THEN deduped
    ELSE LET key == Head(sources).location
         IN  IF key = <<>> \/ key \in seen
             THEN DedupeFrom(Tail(sources), seen, deduped)
             ELSE DedupeFrom(Tail(sources), seen \cup {key},
                             Append(deduped, Head(sources)))

_dedupe_sources(sources) == DedupeFrom(sources, {}, <<>>)

\* The test of _filter_sources: the lowercased location holds a block-listed domain.
LowQuality(source) ==
    \E domain \in LOW_QUALITY_DOMAINS : Contains(Lower(source.location), domain)

\* _filter_sources
_filter_sources(sources) == SelectSeq(sources, LAMBDA s : ~LowQuality(s))

\* ------------------------------------------------------ domain heuristics

GrowthKeywords == { << "g", "r", "o", "w", "t", "h" >>, << "y", "e", "a", "r", "-", "o", "v",
      "e", "r", "-", "y", "e", "a", "r" >>, << "y", "o", "y" >> }

\* _growth_required
_growth_required(task) == \E k \in GrowthKeywords : Contains(Lower(task), k)

\* _growth_covered
_growth_covered(sources) ==
    \E i \in 1..Len(sources) :
        \E k \in GrowthKeywords :
            \/ Contains(Lower(sources[i].title), k)
            \/ Contains(Lower(sources[i].location), k)

StorageKeywords == { << "c", "l", "o", "u", "d", " ", "s", "t", "o", "r", "a", "g", "e" >>,
      << "f", "i", "l", "e", " ", "s", "h", "a", "r", "i", "n", "g" >>, << "s", "t", "o", "r",
      "a", "g", "e", " ", "p", "r", "o", "v", "i", "d", "e", "r", "s" >> }

\* _storage_focus_required
_storage_focus_required(task) == \E k \in StorageKeywords : Contains(Lower(task), k)

InfraMarkers ==
    { << "c", "l", "o", "u", "d", " ", "i", "n", "f", "r", "a", "s", "t", "r", "u", "c", "t",
          "u", "r", "e" >>, << "i", "a", "a", "s" >>, << "a", "w", "s" >>, << "a", "z", "u",
          "r", "e" >>, << "g", "o", "o", "g", "l", "e", " ", "c", "l", "o", "u", "d" >>,
      << "c", "l", "o", "u", "d", " ", "p", "l", "a", "t", "f", "o", "r", "m" >> }

\* _infra_market_source
_infra_market_source(source) ==
    LET text == Lower(source.title \o << " " >> \o source.location)
    IN  /\ Contains(text, << "m", "a", "r", "k", "e", "t", " ", "s", "h", "a", "r", "e" >>)
        /\ \E marker \in InfraMarkers : Contains(text, marker)

\* _storage_focus_missing
_storage_focus_missing(sources) ==
    IF sources = <<>> THEN TRUE
    ELSE \A i \in 1..Len(sources) : _infra_market_source(sources[i])

AuthoritativeDomains ==
    { << "s", "t", "a", "t", "i", "s", "t", "a", ".", "c", "o", "m" >>, << "g", "a", "r", "t",
          "n", "e", "r", ".", "c", "o", "m" >>, << "i", "d", "c", ".", "c", "o", "m" >>,
          << "t", "e", "c", "h", "c", "r", "u", "n", "c", "h", ".", "c", "o", "m" >>,
      << "t", "h", "e", "v", "e", "r", "g", "e", ".", "c", "o", "m" >>, << "b", "l", "o", "o",
            "m", "b", "e", "r", "g", ".", "c", "o", "m" >> }

\* _has_authoritative_sources
_has_authoritative_sources(sources) ==
    \E i \in 1..Len(sources) :
        \E domain \in AuthoritativeDomains :
            Contains(Lower(sources[i].location), domain)

\* ---------------------------------------------------------------- queries

PlanQuery(query, intent) == [query |-> query, intent |-> intent]

\* _fallback_queries.  The literal suffixes " market share 2024 2025",
\* " year-over-year growth 2024 2025" and " statistics 2024 2025
\* site:statista.com" are shortened to their first word.
_fallback_queries(task) ==
    << PlanQuery(task \o << " ", "m", "a", "r", "k", "e", "t" >>, "core market share query"),
       PlanQuery(task \o << " ", "y", "e", "a", "r", "-", "o", "v", "e", "r", "-", "y", "e",
             "a", "r" >>, "growth query"),
       PlanQuery(task \o << " ", "s", "t", "a", "t", "i", "s", "t", "i", "c", "s" >>,
             "authoritative source query") >>

\* _growth_query_fallback.  The five literals are shortened: the second and
\* the fifth to "Dropbox G" and "Dropbox r", the third ("cloud storage market
\* growth ...") to "cloud mg"; this keeps them distinct and in the program's
\* order.
_growth_query_fallback(task) ==
    << PlanQuery(task \o << " ", "y", "e", "a", "r", "-", "o", "v", "e", "r", "-", "y", "e",
          "a", "r" >>, "find YoY growth rate data"),
       PlanQuery(<< "D", "r", "o", "p", "b", "o", "x", " ", "G" >>,
             "find provider-specific growth figures"),
       PlanQuery(<< "c", "l", "o", "u", "d", " ", "m", "g" >>,
                 "find market growth data by vendor"),
       PlanQuery(<< "f", "i", "l", "e", " ", "s", "h", "a", "r", "i", "n", "g" >>,
                 "find vendor share data when storage share data is sparse"),
       PlanQuery(<< "D", "r", "o", "p", "b", "o", "x", " ", "r" >>,
                 "use IR data as a proxy if market-share YoY is unavailable") >>

\* _storage_focus_query_fallback.  Literals shortened as above: the first
\* ("cloud storage market share ...") to "cloud ms"; the second is the same
\* text as the fourth growth query; the third starts like the second growth
\* query and differs from it further on ("Dropbox Gm").
_storage_focus_query_fallback ==
    << PlanQuery(<< "c", "l", "o", "u", "d", " ", "m", "s" >>,
                 "focus on consumer/personal cloud storage market share"),
       PlanQuery(<< "f", "i", "l", "e", " ", "s", "h", "a", "r", "i", "n", "g" >>,
             "use file-sharing vendor shares as proxy"),
       PlanQuery(<< "D", "r", "o", "p", "b", "o", "x", " ", "G", "m" >>,
             "target provider-specific storage market share") >>

\* _normalize_query
_normalize_query(text) == Join(Split(text), << " " >>)

\* sorted(unique, key=lambda q: q.query.lower()): a stable insertion sort.
RECURSIVE InsertSorted(_, _)
InsertSorted(sorted, q) ==
    IF sorted = <<>> THEN << q >>
    ELSE IF StrLess(Lower(q.query), Lower(Head(sorted).query))
         THEN << q >> \o sorted
         ELSE << Head(sorted) >> \o InsertSorted(Tail(sorted), q)

RECURSIVE SortQueries(_, _)
SortQueries(queries, sorted) ==
    IF queries = <<>> THEN sorted
    ELSE SortQueries(Tail(queries), InsertSorted(sorted, Head(queries)))

RECURSIVE UniqueQueries(_, _, _)
UniqueQueries(queries, seen, unique) ==
    IF queries = <<>> THEN unique
    ELSE LET normalized == _normalize_query(Head(queries).query)
         IN  IF normalized = <<>> \/ Lower(normalized) \in seen
             THEN UniqueQueries(Tail(queries), seen, unique)
             ELSE UniqueQueries(Tail(queries), seen \cup {Lower(normalized)},
                                Append(unique,
                                       PlanQuery(normalized, Head(queries).intent)))

\* _dedupe_sort_queries
_dedupe_sort_queries(queries) == SortQueries(UniqueQueries(queries, {}, <<>>), <<>>)

\* ------------------------------------------------------------- citations

AgentSource(title, type, location) ==
    [title |-> title, type |-> type, location |-> location]

\* ValidateFrom without the seen_locations test: every citation whose id is in
\* the map is returned.
RECURSIVE ValidateFromKeepAll(_, _, _, _, _)
ValidateFromKeepAll(citations, id_map, valid, invalid, seen_locations) ==
    IF citations = <<>> THEN [valid |-> valid, invalid |-> invalid]
    ELSE LET citation_id == Head(citations).id
             rest        == Tail(citations)
         IN  IF citation_id = <<>> \/ citation_id \notin DOMAIN id_map
             THEN ValidateFromKeepAll(rest, id_map, valid,
                                      IF citation_id # <<>>
                                      THEN Append(invalid, citation_id) ELSE invalid,
                                      seen_locations)
             ELSE LET entry == id_map[citation_id]
                  IN  ValidateFromKeepAll(rest, id_map,
                                          Append(valid,
                                                 AgentSource(entry.title, entry.type,
                                                             entry.location)),
                                          invalid, seen_locations)

\* The loop of _validate_citations; id_map is a function from ids to entries.
RECURSIVE ValidateFrom(_, _, _, _, _)
ValidateFrom(citations, id_map, valid, invalid, seen_locations) ==
    IF citations = <<>> THEN [valid |-> valid, invalid |-> invalid]
    ELSE LET citation_id == Head(citations).id
             rest        == Tail(citations)
         IN  IF citation_id = <<>> \/ citation_id \notin DOMAIN id_map
             THEN ValidateFrom(rest, id_map, valid,
                               IF citation_id # <<>>
                               THEN Append(invalid, citation_id) ELSE invalid,
                               seen_locations)
             ELSE LET entry    == id_map[citation_id]
                      location == entry.location
                  IN  IF location # <<>> /\ location \in seen_locations
                      THEN ValidateFrom(rest, id_map, valid, invalid, seen_locations)
                      ELSE ValidateFrom(rest, id_map,
                                        Append(valid,
                                               AgentSource(entry.title, entry.type,
                                                           entry.location)),
                                        invalid,
                                        IF location # <<>>
                                        THEN seen_locations \cup {location}
                                        ELSE seen_locations)

\* _validate_citations: (valid, invalid)
_validate_citations(citations, id_map) ==
    ValidateFrom(citations, id_map, <<>>, <<>>, {})

\* {entry["id"]: entry for entry in assigned}: a later entry wins its id.
IdMapOf(assigned) ==
    [id \in {assigned[i].id : i \in 1..Len(assigned)} |->
        assigned[CHOOSE i \in 1..Len(assigned) :
                    /\ assigned[i].id = id
                    /\ \A j \in 1..Len(assigned) : assigned[j].id = id => j <= i]]

\* ------------------------------------------------------ bounds and inputs

\* Calls of run_research that follow one another in a behaviour of SpecRerun
\* (they share the cache and trace stores).
MaxRuns == 2
\* The max_iters and max_queries arguments range over 1..MaxItersArg, 1..MaxQueriesArg.
MaxItersArg == 2
MaxQueriesArg == 3
\* The citation lists of SpecCite hold at most MaxCitations citations.
MaxCitations == 3

\* Tasks: empty, plain, with leading whitespace, one that names growth, one
\* that names a storage focus.
TaskEmpty == <<>>
TaskPlain == << "x" >>
TaskLeadingSpace == << " ", "x" >>
TaskGrowth == << "y", "o", "y" >>
TaskStorage == << "f", "i", "l", "e", " ", "s", "h", "a", "r", "i", "n", "g" >>
Tasks == { TaskEmpty, TaskPlain, TaskLeadingSpace, TaskGrowth, TaskStorage }

\* Agent prompts resolve_agent_prompt can return (empty: no agent selected).
AgentPrompts == { <<>> }

\* Sources the search capability returns (search_web gives type "web" and a
\* non-empty location).
SrcIdc  == AgentSource(<< "I", "D", "C" >>, << "w", "e", "b" >>, << "i", "d", "c", ".", "c",
      "o", "m", "/", "r" >>)
SrcU1   == AgentSource(<< "t" >>, << "w", "e", "b" >>, << "u", ".", "i", "o", "/", "1" >>)
SrcU1b  == AgentSource(<< "T", "2" >>, << "w", "e", "b" >>, << "u", ".", "i", "o", "/", "1" >>)
SrcLowQ == AgentSource(<< "p", "i", "e" >>, << "w", "e", "b" >>, << "A", "A", "G", "-", "I",
      "T", ".", "c", "o", "m", "/", "x" >>)

\* What one search_web call can do: find nothing, or return one of these
\* lists.  It finds nothing in one of two ways, which the query decides: for a
\* query that holds one of these words the request raises (an outage that
\* lasts through the retries of that query), for any other it returns [].
SearchReturns == { << SrcIdc >>, << SrcU1, SrcLowQ, SrcU1b >> }
RaisingWords == { << "m", "a", "r", "k", "e", "t" >>, << "b" >>, << "D", "r", "o", "p", "b", "o", "x" >> }
SearchRaises(query) == \E w \in RaisingWords : Contains(query, w)

\* What adapter.chat can do: raise, or return {"content": ..., "raw": ...}.
\* A content is text that is no JSON, [text |-> ...], or a JSON object,
\* [json |-> <the object>].

PlanNotJson == [text |-> "Sure! Here are some queries"]
PlanNoQueriesField == [json |-> [note |-> "no queries field"]]
PlanNoQueries == [json |-> [queries |-> <<>>]]
PlanThreeQueries ==
    [json |-> [queries |-> << PlanQuery(<< "b" >>, "i1"),
                              PlanQuery(<< " ", "A" >>, "i2"),
                              PlanQuery(<< "a", " ", " " >>, "i3") >>]]
PlanContents == { PlanNotJson, PlanNoQueriesField, PlanNoQueries, PlanThreeQueries }

ReflectionJson(sufficient, new_queries) ==
    [json |-> [sufficient |-> sufficient, confidence |-> "0.9", gaps |-> <<>>,
               new_queries |-> new_queries]]

ReflectNotJson == [text |-> "I think the sources are fine"]
ReflectSufficient == ReflectionJson(TRUE, <<>>)
ReflectNoQueries == ReflectionJson(FALSE, <<>>)
ReflectMoreQueries ==
    ReflectionJson(FALSE, << PlanQuery(<< "A", " " >>, "i4"),
                             PlanQuery(<< "c" >>, "i5") >>)
ReflectContents ==
    { ReflectNotJson, ReflectSufficient, ReflectNoQueries, ReflectMoreQueries }

\* Citations the model declares: an id and an echo of title/type/location.
Citation(id) ==
    [id |-> id, title |-> << "e", "c", "h", "o" >>, type |-> << "w", "e", "b" >>,
          location |-> << "e", ".", "i", "o" >>]

SynthesisJson(answer, ids) ==
    [json |-> [answer |-> answer,
               citations |-> [i \in 1..Len(ids) |-> Citation(ids[i])]]]

SynthNotJson == [text |-> "The answer is 42"]
SynthCitesTwice ==
    SynthesisJson("answer", << << "[", "1", "]" >>, << "[", "2", "]" >>,
                               << "[", "1", "]" >> >>)
SynthCitesAbsent ==
    SynthesisJson("answer", << << "[", "9", "]" >>, <<>>, << "[", "2", "]" >> >>)
SynthContents == { SynthNotJson, SynthCitesTwice, SynthCitesAbsent }

\* The environment's configuration (RESEARCH_TOKEN_BUDGET,
\* RESEARCH_COMPACT_KEEP_RECENT, RESEARCH_COMPACT_BEFORE_SYNTH,
\* RESEARCH_LLM_MAX_TOKENS): a budget so tight that one source fits both
\* presentations and two do not, so that runs with and without compaction occur.
Configs ==
    { [token_budget |-> 5, keep_recent |-> 1,
       force_compact_before_synth |-> FALSE,
       llm_max_tokens |-> DEFAULT_LLM_MAX_TOKENS] }

\* ------------------------------------------------------------------ state

VARIABLES
    llm_cache,      \* CACHE_DIR/llm_<key>.json: cache key -> model result
    search_cache,   \* CACHE_DIR/search_<key>.json: cache key -> {results, failed}
    traces,         \* TRACE_DIR/<run_id>.json: run id -> trace record
    config,         \* the environment's configuration, fixed for the behaviour
    env,            \* what the callers and the capabilities may do in this behaviour
    pc,             \* where run_research stands
    args,           \* the arguments of the current call
    st,             \* the local variables of the current call
    response,       \* what the current call returned
    hist,           \* what the current call has done so far (observation only)
    past            \* the calls that have ended: their arguments and outcome

vars == << llm_cache, search_cache, traces, config, env, pc, args, st, response, hist, past >>

\* _load_cache: the stored entry, or None when the file is absent.
_load_cache(cache, key) == IF key \in DOMAIN cache THEN cache[key] ELSE None

\* _save_cache that writes nothing.
_save_cache_lost(cache, key, payload) == cache

\* _save_cache: write_text replaces the file.
_save_cache(cache, key, payload) == (key :> payload) @@ cache

\* _write_trace: write_text replaces the run id's file.  The guard
\* `not trace.get("run_id")` never holds: a run id is 16 hex digits.
_write_trace(store, trace) == (trace.run_id :> trace) @@ store

\* _parse_json: json.loads raises on text that is no JSON.
_parse_json(content) ==
    IF "json" \in DOMAIN content
    THEN [ok |-> TRUE, payload |-> content.json]
    ELSE [ok |-> FALSE]

\* PlanResponse(**payload), ReflectionResponse(**payload),
\* SynthesisResponse(**payload): pydantic raises when a required field is missing.
PlanSchemaOk(payload) == "queries" \in DOMAIN payload
ReflectionSchemaOk(payload) ==
    {"sufficient", "confidence", "gaps", "new_queries"} \subseteq DOMAIN payload
SynthesisSchemaOk(payload) == {"answer", "citations"} \subseteq DOMAIN payload

\* build_user_task
build_user_task(agent_prompt, task) ==
    IF agent_prompt # <<>>
    THEN agent_prompt \o << "\n", "\n" >> \o task
    ELSE task

\* `max_iters or int(os.environ.get(...))`: None and 0 give the default.
ArgOrDefault(arg, default) == IF arg = 0 THEN default ELSE arg

NoArgs == [task |-> <<>>, agent_prompt |-> <<>>, max_iters |-> 0, max_queries |-> 0]

\* The locals of run_research as lines 419-475 leave them.
InitialLocals(task, agent_prompt, max_iters, max_queries) ==
    LET user_task == build_user_task(agent_prompt, task)
    IN  [run_id |-> _run_id(task),
         trace |-> [run_id |-> _run_id(task), task |-> task, queries |-> <<>>,
                    sources |-> <<>>, reflections |-> <<>>, synthesis |-> None,
                    cache_hits |-> [llm |-> <<>>, search |-> <<>>]],
         max_iters |-> ArgOrDefault(max_iters, DEFAULT_MAX_ITERS),
         max_queries |-> ArgOrDefault(max_queries, DEFAULT_MAX_QUERIES),
         max_sources |-> DEFAULT_MAX_SOURCES,
         user_task |-> user_task,
         model_name |-> DEFAULT_MODEL,
         all_sources |-> <<>>,
         queries |-> <<>>,
         pending_queries |-> <<>>,
         failed_queries |-> <<>>,
         error_log |-> <<>>,
         consecutive_failures |-> 0,
         total_queries |-> 0,
         failed_count |-> 0,
         degraded_mode |-> FALSE,
         compacted_once |-> FALSE,
         growth_forced |-> FALSE,
         growth_required |-> _growth_required(user_task),
         storage_focus_forced |-> FALSE,
         storage_focus_required |-> _storage_focus_required(user_task),
         iterations_run |-> 0,
         fallback_used |-> FALSE,
         executed_queries |-> <<>>,
         qi |-> 1,                  \* position of the `for query in queries` loop
         attempt |-> 0,             \* `attempt` of _search_with_retry
         reflect_result |-> None,
         synth_result |-> None,
         synthesis_sources_list |-> <<>>,
         invalid_ids |-> <<>>]

NoLocals == InitialLocals(<<>>, <<>>, 0, 0)

\* Observation of one call: the model calls it made, whether it called the
\* search capability, the stores it wrote, the stages it entered, the result
\* count of every query it executed, the queries of the current iteration, the
\* search attempts of the current query, whether a model call raised, and the
\* accumulated sources as the last finished search round left them.
NoHist ==
    [model_calls |-> 0, search_called |-> FALSE, cache_writes |-> 0,
     trace_writes |-> 0,
     plan_stages |-> 0, reflect_stages |-> 0, synth_stages |-> 0,
     outcomes |-> <<>>, iter_queries |-> 0, query_attempts |-> 0,
     model_raised |-> FALSE, storage_fires |-> 0, growth_fires |-> 0,
     sources_dropped |-> FALSE, last_attempt |-> "none", round_sources |-> <<>>]

\* The callers and capabilities of Spec: one call, every input of the model.
FullEnv ==
    [runs |-> 1, tasks |-> Tasks, plan_contents |-> PlanContents,
     reflect_contents |-> ReflectContents, synth_contents |-> SynthContents,
     search_returns |-> SearchReturns, any_failure |-> FALSE]

InitOf(environment, configs) ==
    /\ llm_cache = <<>>
    /\ search_cache = <<>>
    /\ traces = <<>>
    /\ config \in configs
    /\ env = environment
    /\ pc = "idle"
    /\ args = NoArgs
    /\ st = NoLocals
    /\ response = None
    /\ hist = NoHist
    /\ past = <<>>

InitWith(environment) == InitOf(environment, Configs)

Init == InitWith(FullEnv)

\* The callers and capabilities of SpecRisks: one call on a plain task whose
\* searches find a trusted source or two others, whose synthesis cites the
\* first source or ids that are absent, under RESEARCH_COMPACT_KEEP_RECENT 0
\* or 1.
RisksEnv ==
    [runs |-> 1, tasks |-> { TaskPlain },
     plan_contents |-> { PlanThreeQueries },
     reflect_contents |-> { ReflectSufficient, ReflectMoreQueries },
     synth_contents |-> { SynthCitesAbsent,
                          SynthesisJson("answer", << << "[", "1", "]" >> >>) },
     search_returns |-> { << SrcIdc >>,
                          << SrcU1, AgentSource(<< "t" >>, << "w", "e", "b" >>,
                                                << "u", ".", "i", "o", "/", "2" >>) >> },
     any_failure |-> FALSE]

RisksConfigs ==
    { [token_budget |-> 5, keep_recent |-> keep_recent,
       force_compact_before_synth |-> FALSE,
       llm_max_tokens |-> DEFAULT_LLM_MAX_TOKENS] : keep_recent \in 0..1 }

\* The callers and capabilities of SpecRetry: one call on a plain task, with
\* a search capability whose attempts may each raise or find nothing,
\* whatever the query.
RetryEnv ==
    [runs |-> 1, tasks |-> { TaskPlain },
     plan_contents |-> { PlanThreeQueries },
     reflect_contents |-> { ReflectSufficient },
     synth_contents |-> { SynthCitesTwice },
     search_returns |-> { << SrcIdc >> }, any_failure |-> TRUE]

\* The callers and capabilities of SpecRerun: MaxRuns calls one after the
\* other on one task, over the stores the earlier calls left, with fewer
\* answers of the model and of the search capability to choose from.
RerunEnv ==
    [runs |-> MaxRuns, tasks |-> { TaskPlain },
     plan_contents |-> { PlanNotJson, PlanThreeQueries },
     reflect_contents |-> { ReflectNotJson, ReflectSufficient, ReflectMoreQueries },
     synth_contents |-> { SynthNotJson, SynthCitesTwice },
     search_returns |-> { << SrcIdc >> }, any_failure |-> FALSE]

InitRerun == InitWith(RerunEnv)

\* The inputs of SpecCite: lists of at most MaxCitations citations over the
\* ids CiteIds (one of them empty), and id maps over two or three positional
\* ids whose entries hold any of CiteLocations (one of them empty), so that
\* ids absent from the map and ids that share a location occur.
CiteIds == { << "[", "1", "]" >>, << "[", "2", "]" >>, << "[", "3", "]" >>, <<>> }

CiteLocations == { << "u" >>, << "v" >>, <<>> }

CitationLists ==
    UNION { [1..n -> { Citation(id) : id \in CiteIds }] : n \in 0..MaxCitations }

IdMaps ==
    UNION { { [id \in D |-> [id |-> id, title |-> id, type |-> << "w", "e", "b" >>,
                             location |-> locs[id]]] : locs \in [D -> CiteLocations] }
            : D \in { { << "[", "1", "]" >>, << "[", "2", "]" >> },
                      { << "[", "1", "]" >>, << "[", "2", "]" >>, << "[", "3", "]" >> } } }

\* SpecCite: _validate_citations on its own, applied to any of these inputs.
InitCite ==
    /\ llm_cache = <<>>
    /\ search_cache = <<>>
    /\ traces = <<>>
    /\ config \in Configs
    /\ env = FullEnv
    /\ pc = "validate"
    /\ args \in { [citations |-> citations, id_map |-> id_map] :
                     citations \in CitationLists, id_map \in IdMaps }
    /\ st = NoLocals
    /\ response = None
    /\ hist = NoHist
    /\ past = <<>>

ValidateCitationsCall ==
    /\ pc = "validate"
    /\ pc' = "validated"
    /\ response' = _validate_citations(args.citations, args.id_map)
    /\ UNCHANGED << llm_cache, search_cache, traces, config, env, args, st, hist, past >>

\* Source lists for the list functions: every list of up to MaxSourceList
\* sources that may repeat a location or have none, and the lists of n
\* distinct sources in the order they were added, n up to MaxNumbered.
MaxSourceList == 3
MaxNumbered == 10
MaxKeepRecent == 5

NumberedSource(i) ==
    AgentSource(<< "s" >> \o IntToStr(i), << "w", "e", "b" >>,
                << "n", ".", "i", "o", "/" >> \o IntToStr(i))

SourceLists ==
    UNION { [1..n -> { SrcIdc, SrcU1, SrcU1b,
                       AgentSource(<< "n" >>, << "w", "e", "b" >>, <<>>) }] :
            n \in 0..MaxSourceList }
    \cup { [i \in 1..n |-> NumberedSource(i)] : n \in 0..MaxNumbered }

\* SpecSources: the source-list functions on their own, applied to any of
\* these lists under a token budget, a keep_recent and a force flag as
\* RESEARCH_TOKEN_BUDGET, RESEARCH_COMPACT_KEEP_RECENT and
\* RESEARCH_COMPACT_BEFORE_SYNTH may set them.
InitSources ==
    /\ llm_cache = <<>>
    /\ search_cache = <<>>
    /\ traces = <<>>
    /\ config \in Configs
    /\ env = FullEnv
    /\ pc = "sources"
    /\ args \in { [sources |-> sources, token_budget |-> token_budget,
                   keep_recent |-> keep_recent, force_compact |-> force_compact] :
                     sources \in SourceLists,
                     token_budget \in { 0, 5, DEFAULT_TOKEN_BUDGET },
                     keep_recent \in 0..MaxKeepRecent, force_compact \in BOOLEAN }
    /\ st = NoLocals
    /\ response = None
    /\ hist = NoHist
    /\ past = <<>>

SourcesCall(from, to, result) ==
    /\ pc = from
    /\ pc' = to
    /\ response' = result
    /\ UNCHANGED << llm_cache, search_cache, traces, config, env, args, st, hist, past >>

DedupeSourcesCall ==
    SourcesCall("sources", "deduped", [deduped |-> _dedupe_sources(args.sources)])

\* _dedupe_sources applied to its own result.
DedupeSourcesAgain ==
    SourcesCall("deduped", "deduped_again",
                [deduped |-> response.deduped, again |-> _dedupe_sources(response.deduped)])

CompactSourcesCall ==
    SourcesCall("sources", "compacted", _compact_sources(args.sources, args.keep_recent))

BuildReflectionSourcesCall ==
    SourcesCall("sources", "reflection_built",
                _build_reflection_sources(args.sources, args.token_budget,
                                          args.keep_recent))

BuildSynthesisSourcesCall ==
    SourcesCall("sources", "synthesis_built",
                _build_synthesis_sources(args.sources, args.token_budget,
                                         args.keep_recent, args.force_compact))

NextSources ==
    \/ DedupeSourcesCall
    \/ DedupeSourcesAgain
    \/ CompactSourcesCall
    \/ BuildReflectionSourcesCall
    \/ BuildSynthesisSourcesCall

\* The call has ended: it returned a response or an exception left it.
Ended == pc \in {"returned", "raised"}

\* run_research, lines 406-475: the call and its set-up.
run_research_begin ==
    /\ pc = "idle" \/ Ended
    /\ Len(past) + (IF Ended THEN 1 ELSE 0) < env.runs
    /\ \E task \in env.tasks, agent_prompt \in AgentPrompts,
          max_iters \in 1..MaxItersArg, max_queries \in 1..MaxQueriesArg :
        /\ args' = [task |-> task, agent_prompt |-> agent_prompt,
                    max_iters |-> max_iters, max_queries |-> max_queries]
        /\ hist' = NoHist
        /\ past' = IF Ended
                   THEN Append(past, [args |-> args, outcome |-> pc,
                                      response |-> response])
                   ELSE past
        /\ IF task = <<>>
           THEN /\ response' = _to_agent_error("task is required", None)
                /\ st' = NoLocals
                /\ pc' = "returned"
           ELSE /\ response' = None
                /\ st' = InitialLocals(task, agent_prompt, max_iters, max_queries)
                /\ pc' = "loop"
    /\ UNCHANGED << llm_cache, search_cache, traces, config, env >>

\* AgentSource.model_dump() and AgentSource(**item): the three fields, kept.
model_dump(source) ==
    [title |-> source.title, type |-> source.type, location |-> source.location]

\* What the call does next, as the values of the variables it may change.
Step(next_pc, next_st, next_response, next_llm, next_search, next_traces, next_hist) ==
    /\ pc' = next_pc
    /\ st' = next_st
    /\ response' = next_response
    /\ llm_cache' = next_llm
    /\ search_cache' = next_search
    /\ traces' = next_traces
    /\ hist' = next_hist
    /\ UNCHANGED << config, env, args, past >>

\* An exception leaves run_research: nothing is returned, nothing more is done.
Raise(next_hist) ==
    Step("raised", st, response, llm_cache, search_cache, traces,
         [next_hist EXCEPT !.model_raised = TRUE])

\* LoopHead without the test of line 481: every iteration plans afresh and
\* drops the pending queries.
LoopHeadAlwaysPlans ==
    /\ pc = "loop"
    /\ IF st.iterations_run >= st.max_iters
       THEN Step("synthesize", st, response, llm_cache, search_cache, traces, hist)
       ELSE LET s1 == [st EXCEPT !.iterations_run = @ + 1]
                h1 == [hist EXCEPT !.iter_queries = 0]
            IN  IF s1.degraded_mode
                THEN Step("synthesize", s1, response, llm_cache, search_cache,
                          traces, h1)
                ELSE Step("plan", [s1 EXCEPT !.pending_queries = <<>>], response,
                          llm_cache, search_cache, traces, h1)

\* Lines 477-483: the head of `for _ in range(max_iters)`.
LoopHead ==
    /\ pc = "loop"
    /\ IF st.iterations_run >= st.max_iters
       THEN \* the range is exhausted
            Step("synthesize", st, response, llm_cache, search_cache, traces, hist)
       ELSE LET s1 == [st EXCEPT !.iterations_run = @ + 1]
                h1 == [hist EXCEPT !.iter_queries = 0]
            IN  IF s1.degraded_mode
                THEN Step("synthesize", s1, response, llm_cache, search_cache,
                          traces, h1)
                ELSE IF s1.pending_queries # <<>>
                THEN LET queries == _dedupe_sort_queries(s1.pending_queries)
                     IN  Step(IF queries = <<>> THEN "search_end" ELSE "search",
                              [s1 EXCEPT !.queries = queries,
                                         !.pending_queries = <<>>, !.qi = 1],
                              response, llm_cache, search_cache, traces, h1)
                ELSE Step("plan", s1, response, llm_cache, search_cache, traces, h1)

\* The result adapter.chat returns: the content and the diagnostic metadata.
ModelResult(content, model_name, call) ==
    [content |-> content, raw |-> [model |-> model_name, call |-> call]]

\* PlanQueries without line 517: an empty query list takes the fallback but
\* does not mark it.
PlanQueriesUnmarked(s, plan_result) ==
    LET parsed  == _parse_json(plan_result.content)
        plan_ok == parsed.ok /\ PlanSchemaOk(parsed.payload)
        first   == IF plan_ok THEN parsed.payload.queries
                   ELSE _fallback_queries(s.user_task)
        plan    == IF first = <<>> THEN _fallback_queries(s.user_task) ELSE first
    IN  [queries |-> PySliceTo(_dedupe_sort_queries(plan), s.max_queries),
         fallback_used |-> ~plan_ok]

\* Lines 509-519: the plan parsed, or the fallback, then deduplicated and capped.
PlanQueries(s, plan_result) ==
    LET parsed  == _parse_json(plan_result.content)
        plan_ok == parsed.ok /\ PlanSchemaOk(parsed.payload)
        first   == IF plan_ok THEN parsed.payload.queries
                   ELSE _fallback_queries(s.user_task)
        plan    == IF first = <<>> THEN _fallback_queries(s.user_task) ELSE first
    IN  [queries |-> PySliceTo(_dedupe_sort_queries(plan), s.max_queries),
         fallback_used |-> ~plan_ok \/ first = <<>>]

PlanKey(s) ==
    _llm_cache_key(BASIC_SYSTEM_PROMPT,
                   _render_prompt("plan_prompt.txt", s.user_task, <<>>, <<>>),
                   s.model_name, "0.0", config.llm_max_tokens)

\* Lines 508-519, after plan_result is known.
PlanDone(plan_result, hit, next_llm, next_hist) ==
    LET p  == PlanQueries(st, plan_result)
        s1 == [st EXCEPT !.queries = p.queries,
                         !.fallback_used = @ \/ p.fallback_used,
                         !.qi = 1,
                         !.trace.cache_hits.llm =
                             IF hit THEN Append(@, "plan") ELSE @]
    IN  Step(IF p.queries = <<>> THEN "search_end" ELSE "search",
             s1, response, next_llm, search_cache, traces, next_hist)

\* Lines 485-519: the plan stage.
PlanStage ==
    /\ pc = "plan"
    /\ LET plan_cached == _load_cache(llm_cache, PlanKey(st))
           h1          == [hist EXCEPT !.plan_stages = @ + 1]
           called      == [h1 EXCEPT !.model_calls = @ + 1]
       IN  \/ /\ plan_cached # None
              /\ PlanDone(plan_cached, TRUE, llm_cache, h1)
           \/ /\ plan_cached = None
              /\ Raise(called)
           \/ /\ plan_cached = None
              /\ \E content \in env.plan_contents :
                    LET plan_result == ModelResult(content, st.model_name, "plan")
                    IN  PlanDone(plan_result, FALSE,
                                 _save_cache(llm_cache, PlanKey(st), plan_result),
                                 [called EXCEPT !.cache_writes = @ + 1])

\* AccountQuery with `consecutive_failures > 3` for `>= 3`.
AccountQueryLate(s, query, results, failed) ==
    LET bad      == failed \/ results = <<>>
        cf       == IF bad THEN s.consecutive_failures + 1 ELSE 0
        fc       == IF bad THEN s.failed_count + 1 ELSE s.failed_count
        degraded == cf > 3 \/ (s.total_queries >= 4 /\ 2 * fc >= s.total_queries)
    IN  [s EXCEPT !.consecutive_failures = cf,
                  !.failed_count = fc,
                  !.all_sources = IF results # <<>> THEN @ \o results ELSE @,
                  !.failed_queries =
                      IF results = <<>> \/ Len(results) < MIN_RESULTS_PER_QUERY
                      THEN Append(@, query) ELSE @,
                  !.degraded_mode = IF degraded THEN TRUE ELSE @,
                  !.qi = @ + 1,
                  !.attempt = 0]

\* AccountQuery that puts the results of a query before the sources already
\* accumulated (`all_sources[:0] = results` for line 554).
AccountQueryPrepends(s, query, results, failed) ==
    LET bad      == failed \/ results = <<>>
        cf       == IF bad THEN s.consecutive_failures + 1 ELSE 0
        fc       == IF bad THEN s.failed_count + 1 ELSE s.failed_count
        degraded == cf >= 3 \/ (s.total_queries >= 4 /\ 2 * fc >= s.total_queries)
    IN  [s EXCEPT !.consecutive_failures = cf,
                  !.failed_count = fc,
                  !.all_sources = IF results # <<>> THEN results \o @ ELSE @,
                  !.failed_queries =
                      IF results = <<>> \/ Len(results) < MIN_RESULTS_PER_QUERY
                      THEN Append(@, query) ELSE @,
                  !.degraded_mode = IF degraded THEN TRUE ELSE @,
                  !.qi = @ + 1,
                  !.attempt = 0]

\* AccountQuery that counts a query with fewer than MIN_RESULTS_PER_QUERY
\* results as a failure too.
AccountQueryThin(s, query, results, failed) ==
    LET bad      == failed \/ Len(results) < MIN_RESULTS_PER_QUERY
        cf       == IF bad THEN s.consecutive_failures + 1 ELSE 0
        fc       == IF bad THEN s.failed_count + 1 ELSE s.failed_count
        degraded == cf >= 3 \/ (s.total_queries >= 4 /\ 2 * fc >= s.total_queries)
    IN  [s EXCEPT !.consecutive_failures = cf,
                  !.failed_count = fc,
                  !.all_sources = IF results # <<>> THEN @ \o results ELSE @,
                  !.failed_queries =
                      IF results = <<>> \/ Len(results) < MIN_RESULTS_PER_QUERY
                      THEN Append(@, query) ELSE @,
                  !.degraded_mode = IF degraded THEN TRUE ELSE @,
                  !.qi = @ + 1,
                  !.attempt = 0]

\* Lines 548-565: the failure accounting of one executed query and the
\* degraded-mode test (failed_count / total_queries >= 0.5 on exact halves).
AccountQuery(s, query, results, failed) ==
    LET bad      == failed \/ results = <<>>
        cf       == IF bad THEN s.consecutive_failures + 1 ELSE 0
        fc       == IF bad THEN s.failed_count + 1 ELSE s.failed_count
        degraded == cf >= 3 \/ (s.total_queries >= 4 /\ 2 * fc >= s.total_queries)
    IN  [s EXCEPT !.consecutive_failures = cf,
                  !.failed_count = fc,
                  !.all_sources = IF results # <<>> THEN @ \o results ELSE @,
                  !.failed_queries =
                      IF results = <<>> \/ Len(results) < MIN_RESULTS_PER_QUERY
                      THEN Append(@, query) ELSE @,
                  !.degraded_mode = IF degraded THEN TRUE ELSE @,
                  !.qi = @ + 1,
                  !.attempt = 0]

\* AfterQueryPc without the breaks of lines 525 and 565: the round runs to
\* the end of its list.
AfterQueryPcNoBreak(s) ==
    IF s.qi > Len(s.queries) THEN "search_end" ELSE "search"

\* Where the `for query in queries` loop stands after a query: it ends on the
\* break of line 565, on the break of line 525, or when the list is exhausted.
AfterQueryPc(s) ==
    IF s.degraded_mode \/ s.qi > Len(s.queries) THEN "search_end" ELSE "search"

\* The query the search loop stands at.
CurrentQuery == st.queries[st.qi].query

SearchKey(s, query) == _search_cache_key(query, s.max_sources)

\* Lines 523-534 and 548-565: a query starts; a cached entry settles it at once.
SearchQuery ==
    /\ pc = "search"
    /\ LET query  == CurrentQuery
           s1     == [st EXCEPT !.executed_queries = Append(@, query),
                                !.total_queries = @ + 1,
                                !.attempt = 0]
           cached == _load_cache(search_cache, SearchKey(st, query))
           h1     == [hist EXCEPT !.iter_queries = @ + 1, !.query_attempts = 0,
                                  !.last_attempt = "none"]
       IN  IF cached # None
           THEN LET results == [i \in 1..Len(cached.results) |->
                                   model_dump(cached.results[i])]
                    s2 == AccountQuery(
                              [s1 EXCEPT !.trace.cache_hits.search = Append(@, query)],
                              query, results, cached.failed)
                IN  Step(AfterQueryPc(s2), s2, response, llm_cache, search_cache,
                         traces,
                         [h1 EXCEPT !.outcomes = Append(@, Len(results))])
           ELSE Step("retry", s1, response, llm_cache, search_cache, traces, h1)

\* SearchReturn that saves the entry only `if not failed`.
SearchReturnDropsFailure(s, results, failed, next_hist) ==
    LET query == CurrentQuery
        s2    == AccountQuery(s, query, results, failed)
        entry == [results |-> [i \in 1..Len(results) |-> model_dump(results[i])],
                  failed |-> failed]
    IN  Step(AfterQueryPc(s2), s2, response, llm_cache,
             IF failed THEN search_cache
             ELSE _save_cache(search_cache, SearchKey(s, query), entry), traces,
             [next_hist EXCEPT !.cache_writes = @ + 1,
                               !.query_attempts = 0,
                               !.outcomes = Append(@, Len(results))])

\* _search_with_retry returns (results, failed); lines 540-565 follow.
SearchReturn(s, results, failed, next_hist) ==
    LET query == CurrentQuery
        s2    == AccountQuery(s, query, results, failed)
        entry == [results |-> [i \in 1..Len(results) |-> model_dump(results[i])],
                  failed |-> failed]
    IN  Step(AfterQueryPc(s2), s2, response, llm_cache,
             _save_cache(search_cache, SearchKey(s, query), entry), traces,
             [next_hist EXCEPT !.cache_writes = @ + 1,
                               !.query_attempts = 0,
                               !.outcomes = Append(@, Len(results))])

\* SearchMiss with the exhausted retries left uncaught: the search failure
\* leaves run_research as an exception.
SearchMissFatal(s, next_hist) ==
    IF s.attempt < DEFAULT_MAX_RETRIES - 1
    THEN Step("retry", [s EXCEPT !.attempt = @ + 1], response, llm_cache,
              search_cache, traces, next_hist)
    ELSE Step("raised", s, response, llm_cache, search_cache, traces, next_hist)

\* SearchMiss with the retry test off by one: a fourth attempt is made.
SearchMissOffByOne(s, next_hist) ==
    IF s.attempt < DEFAULT_MAX_RETRIES
    THEN Step("retry", [s EXCEPT !.attempt = @ + 1], response, llm_cache,
              search_cache, traces, next_hist)
    ELSE SearchReturn(s, <<>>, TRUE, next_hist)

\* SearchMiss that reports the exhausted retries as no failure.
SearchMissUnfailed(s, next_hist) ==
    IF s.attempt < DEFAULT_MAX_RETRIES - 1
    THEN Step("retry", [s EXCEPT !.attempt = @ + 1], response, llm_cache,
              search_cache, traces, next_hist)
    ELSE SearchReturn(s, <<>>, FALSE, next_hist)

\* _search_with_retry, an attempt without results: sleep and try again, or
\* give up after the last attempt of range(DEFAULT_MAX_RETRIES).
SearchMiss(s, next_hist) ==
    IF s.attempt < DEFAULT_MAX_RETRIES - 1
    THEN Step("retry", [s EXCEPT !.attempt = @ + 1], response, llm_cache,
              search_cache, traces, next_hist)
    ELSE SearchReturn(s, <<>>, TRUE, next_hist)

\* How an attempt of search_web can fail: by an exception (TRUE) or by an
\* empty list (FALSE); tied to the query unless the environment frees it.
FailureKinds(query) ==
    IF env.any_failure THEN BOOLEAN ELSE { SearchRaises(query) }

\* _search_with_retry, lines 393-403: one attempt of the retry loop.
SearchAttempt ==
    /\ pc = "retry"
    /\ LET called == [hist EXCEPT !.search_called = TRUE, !.query_attempts = @ + 1]
       IN  \/ \* search_web finds nothing: an exception goes to the error ledger
              \E raises \in FailureKinds(CurrentQuery) :
                 IF raises
                 THEN SearchMiss([st EXCEPT !.error_log =
                                     Append(@, [phase |-> "search",
                                                query |-> CurrentQuery,
                                                error |-> "search failed"])],
                                 [called EXCEPT !.last_attempt = "raised"])
                 ELSE SearchMiss(st, [called EXCEPT !.last_attempt = "empty"])
           \/ \E results \in env.search_returns :
                 SearchReturn(st, results, FALSE,
                              [called EXCEPT !.last_attempt = "results"])

\* SearchRoundEnd as if the break of line 565 left the iteration's search
\* stage altogether: a round cut by degraded mode is not filtered.
SearchRoundEndSkipsOnBreak ==
    /\ pc = "search_end"
    /\ LET all_sources == IF st.degraded_mode THEN st.all_sources
                          ELSE _dedupe_sources(_filter_sources(st.all_sources))
       IN  Step("reflect", [st EXCEPT !.all_sources = all_sources],
                response, llm_cache, search_cache, traces,
                [hist EXCEPT !.round_sources = all_sources])

\* Line 567: filter and deduplicate what the round accumulated.
SearchRoundEnd ==
    /\ pc = "search_end"
    /\ LET all_sources == _dedupe_sources(_filter_sources(st.all_sources))
       IN  Step("reflect", [st EXCEPT !.all_sources = all_sources],
                response, llm_cache, search_cache, traces,
                [hist EXCEPT !.round_sources = all_sources])

\* Line 579: the block of underperforming queries in the reflection prompt.
FailedBlock(failed_queries) ==
    IF failed_queries # <<>>
    THEN Join([i \in 1..Len(failed_queries) |-> << "-", " " >> \o failed_queries[i]], << "\n" >>)
    ELSE << "(", "n", "o", "n", "e", ")" >>

\* Lines 572-576: the presentation of the sources to the reflection call.
ReflectionPresentation(s) ==
    _build_reflection_sources(s.all_sources, config.token_budget, config.keep_recent)

ReflectKey(s) ==
    _llm_cache_key(BASIC_SYSTEM_PROMPT,
                   _render_prompt("reflect_prompt.txt", s.user_task,
                                  ReflectionPresentation(s).text,
                                  FailedBlock(s.failed_queries)),
                   s.model_name, "0.0", config.llm_max_tokens)

\* Lines 617-634 with heuristics that do not record that they were forced.
AfterReflectionUnflagged(s, reflection) ==
    LET growth_missing  == s.growth_required /\ ~_growth_covered(s.all_sources)
        storage_missing == s.storage_focus_required
                           /\ _storage_focus_missing(s.all_sources)
    IN  IF reflection.sufficient /\ storage_missing /\ ~s.storage_focus_forced
           /\ ~s.degraded_mode
        THEN [pc |-> "loop", fired |-> "storage",
              st |-> [s EXCEPT !.pending_queries =
                                   PySliceTo(_storage_focus_query_fallback,
                                             s.max_queries)]]
        ELSE IF reflection.sufficient /\ growth_missing /\ ~s.growth_forced
                /\ ~s.degraded_mode
        THEN [pc |-> "loop", fired |-> "growth",
              st |-> [s EXCEPT !.pending_queries =
                                   PySliceTo(_growth_query_fallback(s.user_task),
                                             s.max_queries)]]
        ELSE IF reflection.sufficient \/ s.degraded_mode
        THEN [pc |-> "synthesize", fired |-> "none", st |-> s]
        ELSE IF reflection.new_queries # <<>>
        THEN [pc |-> "loop", fired |-> "none",
              st |-> [s EXCEPT !.pending_queries =
                                   PySliceTo(reflection.new_queries, s.max_queries)]]
        ELSE [pc |-> "synthesize", fired |-> "none", st |-> s]

\* Lines 617-634 with the new queries of the reflection taken uncapped.
AfterReflectionUncapped(s, reflection) ==
    LET growth_missing  == s.growth_required /\ ~_growth_covered(s.all_sources)
        storage_missing == s.storage_focus_required
                           /\ _storage_focus_missing(s.all_sources)
    IN  IF reflection.sufficient /\ storage_missing /\ ~s.storage_focus_forced
           /\ ~s.degraded_mode
        THEN [pc |-> "loop", fired |-> "storage",
              st |-> [s EXCEPT !.storage_focus_forced = TRUE,
                               !.pending_queries =
                                   PySliceTo(_storage_focus_query_fallback,
                                             s.max_queries)]]
        ELSE IF reflection.sufficient /\ growth_missing /\ ~s.growth_forced
                /\ ~s.degraded_mode
        THEN [pc |-> "loop", fired |-> "growth",
              st |-> [s EXCEPT !.growth_forced = TRUE,
                               !.pending_queries =
                                   PySliceTo(_growth_query_fallback(s.user_task),
                                             s.max_queries)]]
        ELSE IF reflection.sufficient \/ s.degraded_mode
        THEN [pc |-> "synthesize", fired |-> "none", st |-> s]
        ELSE IF reflection.new_queries # <<>>
        THEN [pc |-> "loop", fired |-> "none",
              st |-> [s EXCEPT !.pending_queries = reflection.new_queries]]
        ELSE [pc |-> "synthesize", fired |-> "none", st |-> s]

\* AfterReflection in which a heuristic that fires injects its queries but
\* the sufficient = true of the reflection is honoured at once (`break` for
\* the `continue` of lines 622 and 626).
AfterReflectionHonoursSufficient(s, reflection) ==
    LET growth_missing  == s.growth_required /\ ~_growth_covered(s.all_sources)
        storage_missing == s.storage_focus_required
                           /\ _storage_focus_missing(s.all_sources)
    IN  IF reflection.sufficient /\ storage_missing /\ ~s.storage_focus_forced
           /\ ~s.degraded_mode
        THEN [pc |-> "synthesize", fired |-> "storage",
              st |-> [s EXCEPT !.storage_focus_forced = TRUE,
                               !.pending_queries =
                                   PySliceTo(_storage_focus_query_fallback,
                                             s.max_queries)]]
        ELSE IF reflection.sufficient /\ growth_missing /\ ~s.growth_forced
                /\ ~s.degraded_mode
        THEN [pc |-> "synthesize", fired |-> "growth",
              st |-> [s EXCEPT !.growth_forced = TRUE,
                               !.pending_queries =
                                   PySliceTo(_growth_query_fallback(s.user_task),
                                             s.max_queries)]]
        ELSE IF reflection.sufficient \/ s.degraded_mode
        THEN [pc |-> "synthesize", fired |-> "none", st |-> s]
        ELSE IF reflection.new_queries # <<>>
        THEN [pc |-> "loop", fired |-> "none",
              st |-> [s EXCEPT !.pending_queries =
                                   PySliceTo(reflection.new_queries, s.max_queries)]]
        ELSE [pc |-> "synthesize", fired |-> "none", st |-> s]

\* Lines 617-634: what the loop does with a parsed reflection.
AfterReflection(s, reflection) ==
    LET growth_missing  == s.growth_required /\ ~_growth_covered(s.all_sources)
        storage_missing == s.storage_focus_required
                           /\ _storage_focus_missing(s.all_sources)
    IN  IF reflection.sufficient /\ storage_missing /\ ~s.storage_focus_forced
           /\ ~s.degraded_mode
        THEN [pc |-> "loop", fired |-> "storage",
              st |-> [s EXCEPT !.storage_focus_forced = TRUE,
                               !.pending_queries =
                                   PySliceTo(_storage_focus_query_fallback,
                                             s.max_queries)]]
        ELSE IF reflection.sufficient /\ growth_missing /\ ~s.growth_forced
                /\ ~s.degraded_mode
        THEN [pc |-> "loop", fired |-> "growth",
              st |-> [s EXCEPT !.growth_forced = TRUE,
                               !.pending_queries =
                                   PySliceTo(_growth_query_fallback(s.user_task),
                                             s.max_queries)]]
        ELSE IF reflection.sufficient \/ s.degraded_mode
        THEN [pc |-> "synthesize", fired |-> "none", st |-> s]
        ELSE IF reflection.new_queries # <<>>
        THEN [pc |-> "loop", fired |-> "none",
              st |-> [s EXCEPT !.pending_queries =
                                   PySliceTo(reflection.new_queries, s.max_queries)]]
        ELSE [pc |-> "synthesize", fired |-> "none", st |-> s]

\* ReflectDone with a reflection that does not parse treated as the planning
\* stage treats its own: the loop goes on to the synthesis.
ReflectDoneLenient(reflect_result, hit, next_llm, next_hist) ==
    LET s1     == [st EXCEPT !.reflect_result = reflect_result]
        parsed == _parse_json(reflect_result.content)
    IN  IF parsed.ok /\ ReflectionSchemaOk(parsed.payload)
        THEN LET s2 == [s1 EXCEPT !.trace.reflections = Append(@, parsed.payload)]
                 n  == AfterReflection(s2, parsed.payload)
             IN  Step(n.pc, n.st, response, next_llm, search_cache, traces, next_hist)
        ELSE Step("synthesize", s1, response, next_llm, search_cache, traces,
                  next_hist)

\* Lines 577-578 and 606-634, after reflect_result is known.
ReflectDone(reflect_result, hit, next_llm, next_hist) ==
    LET r      == ReflectionPresentation(st)
        s1     == [st EXCEPT !.compacted_once = @ \/ (r.compacted /\ r.omitted > 0),
                             !.reflect_result = reflect_result,
                             !.trace.cache_hits.llm =
                                 IF hit THEN Append(@, "reflect") ELSE @]
        parsed == _parse_json(reflect_result.content)
        h1     == [next_hist EXCEPT !.sources_dropped =
                      @ \/ (r.compacted
                           /\ Len(_compact_sources(st.all_sources,
                                                   config.keep_recent).sources)
                                < Len(st.all_sources))]
    IN  IF parsed.ok /\ ReflectionSchemaOk(parsed.payload)
        THEN LET s2 == [s1 EXCEPT !.trace.reflections = Append(@, parsed.payload)]
                 n  == AfterReflection(s2, parsed.payload)
             IN  Step(n.pc, n.st, response, next_llm, search_cache, traces,
                      [h1 EXCEPT
                          !.storage_fires = IF n.fired = "storage" THEN @ + 1 ELSE @,
                          !.growth_fires = IF n.fired = "growth" THEN @ + 1 ELSE @])
        ELSE Step("returned", s1,
                  _to_agent_error("reflection phase returned invalid JSON",
                                  reflect_result.raw),
                  next_llm, search_cache, _write_trace(traces, s1.trace),
                  [h1 EXCEPT !.trace_writes = @ + 1])

\* Lines 570-634: the reflect stage.
ReflectStage ==
    /\ pc = "reflect"
    /\ LET reflect_cached == _load_cache(llm_cache, ReflectKey(st))
           h1             == [hist EXCEPT !.reflect_stages = @ + 1]
           called         == [h1 EXCEPT !.model_calls = @ + 1]
       IN  \/ /\ reflect_cached # None
              /\ ReflectDone(reflect_cached, TRUE, llm_cache, h1)
           \/ /\ reflect_cached = None
              /\ Raise(called)
           \/ /\ reflect_cached = None
              /\ \E content \in env.reflect_contents :
                    LET reflect_result ==
                            ModelResult(content, st.model_name, "reflect")
                    IN  ReflectDone(reflect_result, FALSE,
                                    _save_cache(llm_cache, ReflectKey(st),
                                                reflect_result),
                                    [called EXCEPT !.cache_writes = @ + 1])

\* Lines 638-643: the presentation of the sources to the synthesis call.
SynthesisPresentation(s) ==
    _build_synthesis_sources(s.all_sources, config.token_budget, config.keep_recent,
                             config.force_compact_before_synth)

SynthKey(s) ==
    _llm_cache_key(BASIC_SYSTEM_PROMPT,
                   _render_prompt("synthesize_prompt.txt", s.user_task,
                                  SynthesisPresentation(s).text, <<>>),
                   s.model_name, "0.0", config.llm_max_tokens)

\* Lines 682-690: the risk annotations.
Risks(s, invalid_ids) ==
    (IF s.degraded_mode
     THEN << "Search degraded; answer may be based on partial information." >>
     ELSE <<>>)
    \o (IF s.compacted_once
        THEN << "Some sources were omitted due to context budget limits." >>
        ELSE <<>>)
    \o (IF invalid_ids # <<>>
        THEN << "Some citations were invalid and were omitted." >>
        ELSE <<>>)
    \o (IF ~_has_authoritative_sources(s.all_sources)
        THEN << "No top-tier analyst or major tech news sources found." >>
        ELSE <<>>)

\* The id map built over the full source list instead of the presented one.
CitationIdMapOfAll(s, presented) == IdMapOf(_assign_source_ids(s.all_sources))

\* Line 675: the id map of the citations, over synthesis_sources_list.
CitationIdMap(s, presented) == IdMapOf(_assign_source_ids(presented))

\* Lines 644-645 and 667-719, after synth_result is known.
SynthDone(synth_result, hit, next_llm, next_hist) ==
    LET b      == SynthesisPresentation(st)
        s1     == [st EXCEPT !.compacted_once = @ \/ (b.compacted /\ b.omitted > 0),
                             !.synth_result = synth_result,
                             !.synthesis_sources_list = b.sources,
                             !.trace.cache_hits.llm =
                                 IF hit THEN Append(@, "synthesize") ELSE @]
        parsed == _parse_json(synth_result.content)
        h1     == [next_hist EXCEPT !.sources_dropped =
                      @ \/ Len(b.sources) < Len(st.all_sources)]
    IN  IF parsed.ok /\ SynthesisSchemaOk(parsed.payload)
        THEN LET synthesis == parsed.payload
                 id_map    == CitationIdMap(s1, b.sources)
                 v         == _validate_citations(synthesis.citations, id_map)
                 s2        == [s1 EXCEPT !.invalid_ids = v.invalid,
                                         !.trace.queries = s1.executed_queries,
                                         !.trace.sources =
                                             [i \in 1..Len(s1.all_sources) |->
                                                 model_dump(s1.all_sources[i])],
                                         !.trace.synthesis = synthesis]
                 metadata  ==
                     [iterations |-> s2.iterations_run,
                      model |-> s2.model_name,
                      max_tokens |-> config.llm_max_tokens,
                      queries_count |-> Len(s2.executed_queries),
                      sources_count |-> Len(s2.all_sources),
                      forced_flags |->
                          [fallback_query_used |-> s2.fallback_used,
                           cache_hit |-> s2.trace.cache_hits]]
             IN  Step("returned", s2,
                      [summary |-> << synthesis.answer >>, key_findings |-> <<>>,
                       recommendations |-> <<>>, risks |-> Risks(s2, v.invalid),
                       open_questions |-> <<>>, sources |-> v.valid,
                       raw |-> synth_result.raw, metadata |-> metadata],
                      next_llm, search_cache, _write_trace(traces, s2.trace),
                      [h1 EXCEPT !.trace_writes = @ + 1])
        ELSE Step("returned", s1,
                  _to_agent_error("synthesis phase returned invalid JSON",
                                  synth_result.raw),
                  next_llm, search_cache, _write_trace(traces, s1.trace),
                  [h1 EXCEPT !.trace_writes = @ + 1])

\* Lines 636-719: the synthesize stage.
SynthesizeStage ==
    /\ pc = "synthesize"
    /\ LET synth_cached == _load_cache(llm_cache, SynthKey(st))
           h1           == [hist EXCEPT !.synth_stages = @ + 1]
           called       == [h1 EXCEPT !.model_calls = @ + 1]
       IN  \/ /\ synth_cached # None
              /\ SynthDone(synth_cached, TRUE, llm_cache, h1)
           \/ /\ synth_cached = None
              /\ Raise(called)
           \/ /\ synth_cached = None
              /\ \E content \in env.synth_contents :
                    LET synth_result ==
                            ModelResult(content, st.model_name, "synthesize")
                    IN  SynthDone(synth_result, FALSE,
                                  _save_cache(llm_cache, SynthKey(st), synth_result),
                                  [called EXCEPT !.cache_writes = @ + 1])

Next ==
    \/ run_research_begin
    \/ LoopHead
    \/ PlanStage
    \/ SearchQuery
    \/ SearchAttempt
    \/ SearchRoundEnd
    \/ ReflectStage
    \/ SynthesizeStage

Spec == Init /\ [][Next]_vars

SpecRerun == InitRerun /\ [][Next]_vars

SpecCite == InitCite /\ [][ValidateCitationsCall]_vars

SpecRisks == InitOf(RisksEnv, RisksConfigs) /\ [][Next]_vars

SpecRetry == InitWith(RetryEnv) /\ [][Next]_vars

\* SpecConcurrent: MaxConcurrent runs of run_research at once, as far as they
\* touch the stores they share: the lookup of the plan stage's key, the model
\* call on a miss, the two steps of write_text on the cache file (open, which
\* creates or truncates it, and the write of the text at the start of the
\* file), and the trace file written at the end.  Here pc, args, st and
\* response (the plan result the run holds) are per run, llm_cache maps a key
\* to the text of its file, and traces records with each file the run that
\* wrote it.
MaxConcurrent == 2

\* The text json.dumps makes of what adapter.chat returned: an object is
\* written between braces.
json_dumps(payload) == << "{" >> \o payload \o << "}" >>

\* json.loads of a file's text: the text of one object, or an error.
json_loads(text) ==
    IF /\ Len(text) >= 2
       /\ text[1] = "{"
       /\ text[Len(text)] = "}"
       /\ \A i \in 2..(Len(text) - 1) : text[i] \notin { "{", "}" }
    THEN [ok |-> TRUE, payload |-> SubSeq(text, 2, Len(text) - 1)]
    ELSE [ok |-> FALSE]

\* _load_cache on the file store: None when the file does not exist or its
\* text does not parse.
_load_cache_file(files, key) ==
    IF key \notin DOMAIN files THEN None
    ELSE IF json_loads(files[key]).ok THEN [content |-> json_loads(files[key]).payload]
    ELSE None

\* Every run has been called and has computed its run id and its locals
\* (lines 415-475); none has touched a store yet.
InitConcurrent ==
    /\ llm_cache = <<>>
    /\ search_cache = <<>>
    /\ traces = <<>>
    /\ config \in Configs
    /\ env = FullEnv
    /\ pc = [r \in 1..MaxConcurrent |-> "lookup"]
    /\ args \in [1..MaxConcurrent -> { [task |-> task, agent_prompt |-> <<>>,
                                      max_iters |-> 1, max_queries |-> 1] :
                                        task \in { TaskPlain, TaskLeadingSpace, TaskGrowth } }]
    /\ st = [r \in 1..MaxConcurrent |->
                InitialLocals(args[r].task, args[r].agent_prompt,
                              args[r].max_iters, args[r].max_queries)]
    /\ response = [r \in 1..MaxConcurrent |-> None]
    /\ hist = [writes |-> <<>>]
    /\ past = <<>>

\* Lines 495-498: the lookup of the plan stage.
ConcurrentLookup(r) ==
    /\ pc[r] = "lookup"
    /\ LET cached == _load_cache_file(llm_cache, PlanKey(st[r]))
       IN  IF cached # None
           THEN /\ response' = [response EXCEPT ![r] = cached]
                /\ st' = [st EXCEPT ![r].trace.cache_hits.llm = Append(@, "plan")]
                /\ pc' = [pc EXCEPT ![r] = "trace"]
           ELSE /\ UNCHANGED << response, st >>
                /\ pc' = [pc EXCEPT ![r] = "chat"]
    /\ UNCHANGED << llm_cache, search_cache, traces, config, env, args, hist, past >>

\* Lines 500-506: adapter.chat returns a result, short or long.
ConcurrentChat(r) ==
    /\ pc[r] = "chat"
    /\ \E result \in { << "p" >>, << "q", "q", "q" >> } :
          response' = [response EXCEPT ![r] = [content |-> result]]
    /\ pc' = [pc EXCEPT ![r] = "open"]
    /\ UNCHANGED << llm_cache, search_cache, traces, config, env, args, st, hist,
                    past >>

\* Line 97, write_text, first step: open(path, "w"), after which the file
\* exists and is empty.
ConcurrentOpen(r) ==
    /\ pc[r] = "open"
    /\ llm_cache' = (PlanKey(st[r]) :> <<>>) @@ llm_cache
    /\ pc' = [pc EXCEPT ![r] = "write"]
    /\ UNCHANGED << search_cache, traces, config, env, args, st, response, hist,
                    past >>

\* Line 97, write_text, second step: write and close.  The text goes to the
\* start of the file, over what is there, and what lies beyond it stays.
ConcurrentWrite(r) ==
    /\ pc[r] = "write"
    /\ LET key  == PlanKey(st[r])
           data == json_dumps(response[r].content)
           file == llm_cache[key]
       IN  llm_cache' = (key :> (data \o SubSeq(file, Len(data) + 1, Len(file))))
                            @@ llm_cache
    /\ hist' = [hist EXCEPT !.writes =
                   Append(@, [run |-> r, key |-> PlanKey(st[r]),
                              payload |-> response[r].content])]
    /\ pc' = [pc EXCEPT ![r] = "trace"]
    /\ UNCHANGED << search_cache, traces, config, env, args, st, response, past >>

\* Lines 132-136, _write_trace at the end of the run.
ConcurrentWriteTrace(r) ==
    /\ pc[r] = "trace"
    /\ traces' = (st[r].trace.run_id :> [writer |-> r, trace |-> st[r].trace]) @@ traces
    /\ pc' = [pc EXCEPT ![r] = "done"]
    /\ UNCHANGED << llm_cache, search_cache, config, env, args, st, response, hist,
                    past >>

NextConcurrent ==
    \E r \in 1..MaxConcurrent :
        \/ ConcurrentLookup(r)
        \/ ConcurrentChat(r)
        \/ ConcurrentOpen(r)
        \/ ConcurrentWrite(r)
        \/ ConcurrentWriteTrace(r)

SpecConcurrent == InitConcurrent /\ [][NextConcurrent]_vars

SpecSources == InitSources /\ [][NextSources]_vars

\* ------------------------------------------------------------------ claims

\* A call is running: it has begun and has neither returned nor raised.
Running == pc # "idle" /\ ~Ended

\* The steps one iteration can take at most: the plan, for each of max_queries
\* queries its start and DEFAULT_MAX_RETRIES attempts, the end of the round, the
\* reflection and the loop head.
IterationSteps == (DEFAULT_MAX_RETRIES + 1) * st.max_queries + 6

\* An upper bound of the steps the running call can still take.
Rank ==
    LET left  == IterationSteps * (st.max_iters - st.iterations_run)
        perq  == DEFAULT_MAX_RETRIES + 1
    IN  CASE pc = "loop"       -> left + 2
          [] pc = "plan"       -> left + perq * st.max_queries + 5
          [] pc = "search"     -> left + 4 + perq * (Len(st.queries) - st.qi + 1)
          [] pc = "retry"      -> left + 4 + perq * (Len(st.queries) - st.qi)
                                       + (DEFAULT_MAX_RETRIES - st.attempt)
          [] pc = "search_end" -> left + 4
          [] pc = "reflect"    -> left + 3
          [] pc = "synthesize" -> 1
          [] OTHER             -> 0

\* The caps of the loop: iterations, queries of an iteration, attempts of a
\* query (a query or an attempt that is about to start has room under its cap).
LoopCaps ==
    /\ st.iterations_run <= st.max_iters
    /\ hist.iter_queries <= st.max_queries
    /\ hist.query_attempts <= DEFAULT_MAX_RETRIES
    /\ pc = "search" => hist.iter_queries < st.max_queries
    /\ pc = "retry" => hist.query_attempts < DEFAULT_MAX_RETRIES

\* C1: every call of run_research with a non-empty task terminates when each
\* model call and search call returns or raises: every step of the running
\* call lowers a natural-number bound of the steps that remain, the loop runs
\* at most max_iters iterations, an iteration executes at most max_queries
\* queries and a query makes at most 3 (DEFAULT_MAX_RETRIES) search attempts.
C1_BoundedTermination ==
    [][/\ Running => (Rank' < Rank /\ Rank' >= 0)
       /\ LoopCaps /\ LoopCaps']_vars

\* A call that ran to the iteration cap, with a round of max_queries queries
\* behind it and a query that used up its attempts, has returned.
C1_Witness ==
    /\ pc = "returned"
    /\ args.task # <<>>
    /\ st.max_iters = MaxItersArg
    /\ st.iterations_run = st.max_iters
    /\ hist.iter_queries = st.max_queries
    /\ \E i \in 1..Len(hist.outcomes) : hist.outcomes[i] = 0
    /\ hist.search_called

\* The response is an error response of _to_agent_error with this reason.
IsErrorResponse(r, reason) ==
    /\ r.summary = << "ERROR: ", reason >>
    /\ r.risks = << reason >>
    /\ r.sources = <<>>

\* A model result whose content parses to the reflection / synthesis schema.
ParsesAsReflection(result) ==
    /\ _parse_json(result.content).ok
    /\ ReflectionSchemaOk(_parse_json(result.content).payload)

ParsesAsSynthesis(result) ==
    /\ _parse_json(result.content).ok
    /\ SynthesisSchemaOk(_parse_json(result.content).payload)

\* Every reflection output of the call so far parsed to its schema.
AllReflectionsParsed == Len(st.trace.reflections) = hist.reflect_stages

\* C2: in a run with a non-empty task where no model call raises and every
\* reflection and synthesis output parses to its schema, the synthesis stage
\* is entered exactly once and the run returns a non-error response whose
\* summary is the synthesis answer, whatever the searches did.
C2_OneSynthesisNoError ==
    /\ hist.synth_stages <= 1
    /\ ( /\ Ended
         /\ args.task # <<>>
         /\ ~hist.model_raised
         /\ AllReflectionsParsed
         /\ (st.synth_result # None => ParsesAsSynthesis(st.synth_result)) )
       => /\ pc = "returned"
          /\ hist.synth_stages = 1
          /\ st.synth_result # None
          /\ response.summary = << _parse_json(st.synth_result.content).payload.answer >>
          /\ response.summary[1] # "ERROR: "
          /\ response.metadata # None

\* A run all of whose queries found nothing, in degraded mode, returned the
\* synthesis answer.
C2_Witness ==
    /\ pc = "returned"
    /\ response.metadata # None
    /\ st.degraded_mode
    /\ Len(hist.outcomes) >= 3
    /\ \A i \in 1..Len(hist.outcomes) : hist.outcomes[i] = 0
    /\ hist.synth_stages = 1

\* The last three executed queries each ended with zero results.
LastThreeEmpty ==
    LET n == Len(hist.outcomes)
    IN  n >= 3 /\ \A i \in (n - 2)..n : hist.outcomes[i] = 0

\* C3: whenever three consecutive executed queries each ended with zero
\* results (after the retries or from a cached failure), in one iteration or
\* across iterations, degraded mode is active at once, and no query is
\* executed while degraded mode is active.
C3_DegradedAfterThree ==
    /\ LastThreeEmpty => st.degraded_mode
    /\ st.degraded_mode => pc \notin {"search", "retry"}

\* The third empty query in a row was a cached failure, met in a later
\* iteration than the first.
C3_Witness ==
    /\ LastThreeEmpty
    /\ st.degraded_mode
    /\ Len(hist.outcomes) = 3
    /\ hist.iter_queries = 1
    /\ st.trace.cache_hits.search # <<>>

\* C4: run_research with an empty task returns at once the error response
\* with summary "ERROR: ...", risks ["task is required"] and no sources,
\* having made no model call, no search call, no cache write and no trace
\* write.
C4_EmptyTask ==
    (pc # "idle" /\ args.task = <<>>)
    => /\ pc = "returned"
       /\ response.summary[1] = "ERROR: "
       /\ response.risks = << "task is required" >>
       /\ response.sources = <<>>
       /\ hist = NoHist
       /\ llm_cache = <<>> /\ search_cache = <<>> /\ traces = <<>>

C4_Witness == pc = "returned" /\ args.task = <<>> /\ response # None

\* The plan output the call received (the plan stage saves it under its key).
PlanReturned == hist.plan_stages = 1 /\ PlanKey(st) \in DOMAIN llm_cache

PlanOutput == llm_cache[PlanKey(st)].content

\* The plan output fails to parse, fails the schema or holds no query.
PlanUnusable(content) ==
    \/ ~_parse_json(content).ok
    \/ ~PlanSchemaOk(_parse_json(content).payload)
    \/ _parse_json(content).payload.queries = <<>>

\* The three fallback queries of the task, as written and whitespace-normalized.
FallbackTexts ==
    { _fallback_queries(st.user_task)[i].query : i \in 1..3 }

NormalizedFallbackTexts == { _normalize_query(q) : q \in FallbackTexts }

\* What C5 says of the plan fallback, but for the text the executed queries
\* hold: `holds(query)` says the query holds the task text.
PlanFallback(from, holds(_)) ==
    PlanReturned =>
        /\ st.fallback_used = PlanUnusable(PlanOutput)
        /\ (pc = "returned" /\ response.metadata # None)
           => response.metadata.forced_flags.fallback_query_used = st.fallback_used
        /\ PlanUnusable(PlanOutput) =>
              /\ (st.iterations_run = 1 /\ hist.reflect_stages = 0)
                 => pc \in {"search", "retry", "search_end", "reflect"}
              /\ st.iterations_run = 1 =>
                    /\ Len(st.executed_queries) <= st.max_queries
                    /\ \A i \in 1..Len(st.executed_queries) :
                          /\ st.executed_queries[i] \in from
                          /\ holds(st.executed_queries[i])

HoldsTask(query) == Contains(query, args.task)

HoldsNormalizedTask(query) == Contains(query, _normalize_query(args.task))

\* C5 (as the claim states it): when the planning output fails to parse, fails
\* the schema or holds no query, the run goes on, the first round executes
\* only queries of the three-query fallback set, each holding the literal task
\* text, at most max_queries of them, and fallback_query_used is true; it is
\* false whenever the plan output parsed to a non-empty query list.
C5_FallbackLiteralTask == PlanFallback(FallbackTexts, HoldsTask)

\* C5 (amended): the same, the executed queries being the whitespace-normalized
\* fallback queries, each holding the whitespace-normalized task text.
C5_FallbackNormalizedTask == PlanFallback(NormalizedFallbackTexts, HoldsNormalizedTask)

\* A task with leading whitespace whose plan was no JSON: the three
\* normalized fallback queries were executed and the response says so.
C5_Witness ==
    /\ pc = "returned"
    /\ args.task = TaskLeadingSpace
    /\ PlanReturned /\ PlanUnusable(PlanOutput)
    /\ response.metadata # None
    /\ response.metadata.forced_flags.fallback_query_used
    /\ Len(st.executed_queries) = 3

\* The latest reflection / synthesis output does not parse to its schema.
ReflectionFailed == st.reflect_result # None /\ ~ParsesAsReflection(st.reflect_result)

SynthesisFailed == st.synth_result # None /\ ~ParsesAsSynthesis(st.synth_result)

\* C6: when the reflection or the synthesis output fails to parse or fails its
\* schema, the run has ended at once (so no model call or search call follows)
\* with the error response (summary "ERROR: ...", risks = [the reason], no
\* sources, raw = the diagnostic metadata of that model result); after a
\* reflection failure no fallback is taken and no synthesis follows.
C6_ParseFailureFatal ==
    /\ ReflectionFailed =>
          /\ pc = "returned"
          /\ IsErrorResponse(response, "reflection phase returned invalid JSON")
          /\ response.raw = st.reflect_result.raw
          /\ response.metadata = None
          /\ hist.synth_stages = 0 /\ st.synth_result = None
    /\ SynthesisFailed =>
          /\ pc = "returned"
          /\ IsErrorResponse(response, "synthesis phase returned invalid JSON")
          /\ response.raw = st.synth_result.raw
          /\ response.metadata = None

\* The reflection of the second iteration did not parse.
C6_Witness ==
    /\ ReflectionFailed
    /\ hist.reflect_stages = 2
    /\ Len(hist.outcomes) >= 2

\* C7: every run that computed a run id and ended on a fatal path (a
\* reflection or synthesis contract violation, or a model call that raised in
\* the plan, reflect or synthesize stage) has written its trace record before
\* control returned to the caller.
C7_TraceOnFatalPaths ==
    ( /\ Ended
      /\ args.task # <<>>
      /\ hist.model_raised \/ ReflectionFailed \/ SynthesisFailed )
    => /\ hist.trace_writes >= 1
       /\ st.run_id \in DOMAIN traces

\* The run returned a synthesis (no error response).
ReturnedSynthesis == pc = "returned" /\ response.metadata # None

\* The citations the synthesis output declared.
DeclaredCitations == _parse_json(st.synth_result.content).payload.citations

\* The source list the synthesis prompt showed, and its positional ids.
PresentedSources == SynthesisPresentation(st).sources

PositionalId(k) == << "[" >> \o IntToStr(k) \o << "]" >>

PresentedIds == { PositionalId(k) : k \in 1..Len(PresentedSources) }

\* Every returned source is the presented source at a cited positional id.
ReturnedSourcesAreCited ==
    \A i \in 1..Len(response.sources) :
        \E j \in 1..Len(DeclaredCitations), k \in 1..Len(PresentedSources) :
            /\ DeclaredCitations[j].id = PositionalId(k)
            /\ response.sources[i] = model_dump(PresentedSources[k])

Resolves(k) == args.citations[k].id \in DOMAIN args.id_map

ResolvedLocation(k) == args.id_map[args.citations[k].id].location

\* The citations _validate_citations is to keep: those that resolve, but for
\* the later ones of a non-empty location.
KeptCitations ==
    { k \in 1..Len(args.citations) :
        /\ Resolves(k)
        /\ \/ ResolvedLocation(k) = <<>>
           \/ \A e \in 1..(k - 1) :
                 Resolves(e) => ResolvedLocation(e) # ResolvedLocation(k) }

\* `valid` is the canonical entries of the kept citations, in their order.
ValidIsKept(valid) ==
    /\ Len(valid) = Cardinality(KeptCitations)
    /\ \E f \in [1..Len(valid) -> KeptCitations] :
          /\ \A i, j \in 1..Len(valid) : i < j => f[i] < f[j]
          /\ \A i \in 1..Len(valid) :
                valid[i] = model_dump(args.id_map[args.citations[f[i]].id])

StageKey ==
    CASE pc = "plan"       -> PlanKey(st)
      [] pc = "reflect"    -> ReflectKey(st)
      [] pc = "synthesize" -> SynthKey(st)

\* An earlier call with the arguments of this one returned.
ReplayOf(i) == past[i].args = args /\ past[i].outcome = "returned"

\* One step of the caches: an entry, once written, stays as it is; a model or
\* search call whose key has an entry is served that entry and the capability
\* is not invoked.
CacheServes ==
    /\ \A k \in DOMAIN llm_cache :
          k \in DOMAIN llm_cache' /\ llm_cache'[k] = llm_cache[k]
    /\ \A k \in DOMAIN search_cache :
          k \in DOMAIN search_cache' /\ search_cache'[k] = search_cache[k]
    /\ (pc \in {"plan", "reflect", "synthesize"} /\ StageKey \in DOMAIN llm_cache)
       => /\ hist'.model_calls = hist.model_calls
          /\ pc' # "raised"
          /\ pc = "reflect" => st'.reflect_result = llm_cache[StageKey]
          /\ pc = "synthesize" => st'.synth_result = llm_cache[StageKey]
    /\ (pc = "search" /\ SearchKey(st, CurrentQuery) \in DOMAIN search_cache)
       => /\ pc' # "retry"
          /\ hist'.search_called = hist.search_called
          /\ hist'.outcomes =
                Append(hist.outcomes,
                       Len(search_cache[SearchKey(st, CurrentQuery)].results))
    /\ hist'.model_calls > hist.model_calls => StageKey \notin DOMAIN llm_cache
    /\ pc = "retry" => SearchKey(st, CurrentQuery) \notin DOMAIN search_cache

\* C10: a model call or a search call whose parameters an earlier call had is
\* served from the cache the entry that call produced, without invoking the
\* capability; so a run with the arguments of an earlier run that returned, on
\* the same configuration and cache, makes no model call and no search call
\* and returns the same summary, sources and risks.
C10_IdempotentReplay ==
    /\ [][CacheServes]_vars
    /\ [](\A i \in 1..Len(past) :
            (pc # "idle" /\ ReplayOf(i)) =>
                /\ hist.model_calls = 0
                /\ ~hist.search_called
                /\ hist.cache_writes = 0
                /\ pc # "raised"
                /\ pc = "returned" =>
                      /\ response.summary = past[i].response.summary
                      /\ response.sources = past[i].response.sources
                      /\ response.risks = past[i].response.risks)

\* The second run of a task returned the synthesis of the first from the
\* caches: its queries and its three stages were cache hits.
C10_Witness ==
    /\ ReturnedSynthesis
    /\ Len(past) = 1 /\ ReplayOf(1)
    /\ past[1].response.metadata # None
    /\ Len(st.trace.cache_hits.search) >= 2
    /\ Len(st.trace.cache_hits.llm) >= 3
    /\ hist.model_calls = 0

\* One step of the cache store seen from the misses: a model call that
\* returns and a search that ends (with results or failed) leave an entry
\* under their key that holds the outcome.
MissWrites ==
    /\ (hist'.model_calls > hist.model_calls /\ pc' # "raised")
       => /\ StageKey \in DOMAIN llm_cache'
          /\ pc = "reflect" => llm_cache'[StageKey] = st'.reflect_result
          /\ pc = "synthesize" => llm_cache'[StageKey] = st'.synth_result
    /\ (pc = "retry" /\ pc' # "retry")
       => LET key == SearchKey(st, CurrentQuery)
          IN  /\ key \in DOMAIN search_cache'
              /\ Len(search_cache'[key].results) = hist'.outcomes[Len(hist'.outcomes)]
              /\ search_cache'[key].failed = (search_cache'[key].results = <<>>)

\* One step of the cache store seen from a failed search: its entry stays as
\* it is, and a lookup of its key is a hit that reports the failure (no
\* results, one more consecutive failure) without a search attempt.
FailureStays ==
    \A key \in DOMAIN search_cache :
        search_cache[key].failed =>
            /\ key \in DOMAIN search_cache' /\ search_cache'[key] = search_cache[key]
            /\ (pc = "search" /\ SearchKey(st, CurrentQuery) = key)
               => /\ pc' \in {"search", "search_end"}
                  /\ hist'.search_called = hist.search_called
                  /\ hist'.cache_writes = hist.cache_writes
                  /\ hist'.outcomes = Append(hist.outcomes, 0)
                  /\ st'.consecutive_failures = st.consecutive_failures + 1
                  /\ st'.trace.cache_hits.search
                        = Append(st.trace.cache_hits.search, CurrentQuery)

\* C11: a cache miss writes the outcome of the call it performs under its key,
\* failures included: once a search for a query and limit has failed, every
\* later lookup of that pair, in the same run or in a later one, is a cache
\* hit that reports the failure without invoking the search capability, and
\* the program never rewrites or removes the entry.
C11_FailureCached == [][MissWrites /\ FailureStays]_vars

\* A later run met the failed search of an earlier run as a cache hit.
C11_Witness ==
    /\ Len(past) = 1
    /\ past[1].outcome = "returned"
    /\ ~hist.search_called
    /\ hist.outcomes # <<>> /\ hist.outcomes[Len(hist.outcomes)] = 0
    /\ st.trace.cache_hits.search # <<>>
    /\ st.consecutive_failures >= 1

\* The locations of a source list, in order.
Locations(sources) == [i \in 1..Len(sources) |-> sources[i].location]

\* C12: _dedupe_sources applied to its own result returns that result, and
\* every location in its result is non-empty and occurs once.
C12_DedupeIdempotent ==
    /\ pc \in {"deduped", "deduped_again"}
       => LET locs == Locations(response.deduped)
          IN  /\ \A i \in DOMAIN locs : locs[i] # <<>>
              /\ \A i, j \in DOMAIN locs : locs[i] = locs[j] => i = j
    /\ pc = "deduped_again" => response.again = response.deduped

\* A list with a repeated location and a source without location was deduped
\* twice and something was left.
C12_Witness ==
    /\ pc = "deduped_again"
    /\ \E i, j \in DOMAIN args.sources :
          i # j /\ args.sources[i].location = args.sources[j].location
                /\ args.sources[i].location # <<>>
    /\ \E i \in DOMAIN args.sources : args.sources[i].location = <<>>
    /\ response.deduped # <<>>
    /\ Len(response.deduped) < Len(args.sources)

\* The sources a presentation may show: the last ones of the input, in order.
LastSources(sources) ==
    { SubSeq(sources, j + 1, Len(sources)) : j \in 0..Len(sources) }

\* The estimates of the full formatted list that the two presentations
\* compare with the budget.
ReflectionWithinBudget ==
    _estimate_tokens(_format_sources_for_reflection(args.sources)) <= args.token_budget

SynthesisWithinBudget ==
    _estimate_tokens(_format_sources_for_synthesis(args.sources)) <= args.token_budget

\* The reflection presentation is a text: it shows either the full list or a
\* header and the last sources of the list.
ReflectionShows(presented) ==
    \/ response.text = _format_sources_for_reflection(presented)
    \/ response.text = OmittedHeader(response.omitted)
                          \o _format_sources_for_reflection(presented)

ReflectionNeverAdds ==
    pc = "reflection_built" => \E presented \in LastSources(args.sources) :
                                  ReflectionShows(presented)

SynthesisNeverAdds ==
    pc = "synthesis_built" => response.sources \in LastSources(args.sources)

ReflectionFullWithinBudget ==
    (pc = "reflection_built" /\ ReflectionWithinBudget)
        => /\ response.text = _format_sources_for_reflection(args.sources)
           /\ ~response.compacted
           /\ response.omitted = 0

SynthesisFull ==
    /\ response.sources = args.sources
    /\ response.omitted = 0

\* C13 as stated: for both presentations and every value of the
\* force-compaction flag, the presented list has no more sources than the
\* input, and when the estimate of the full formatted list is within the
\* token budget no source is dropped (full list, omitted count 0).
C13_NoDropWithinBudget ==
    /\ ReflectionNeverAdds
    /\ SynthesisNeverAdds
    /\ ReflectionFullWithinBudget
    /\ (pc = "synthesis_built" /\ SynthesisWithinBudget) => SynthesisFull

\* C13 amended: the same, except that the synthesis presentation keeps the
\* full list within budget only when compaction is not forced.
C13_NoDropWithinBudgetUnlessForced ==
    /\ ReflectionNeverAdds
    /\ SynthesisNeverAdds
    /\ ReflectionFullWithinBudget
    /\ (pc = "synthesis_built" /\ SynthesisWithinBudget /\ ~args.force_compact)
          => SynthesisFull

\* A synthesis presentation within budget, not forced, of more sources than
\* keep_recent, that shows them all.
C13_Witness ==
    /\ pc = "synthesis_built"
    /\ SynthesisWithinBudget
    /\ ~args.force_compact
    /\ args.token_budget = 5
    /\ Len(args.sources) > args.keep_recent
    /\ response.sources = args.sources
    /\ response.omitted = 0

\* What compaction of the input with keep_recent = k is stated to present:
\* the last min(n, k) sources, and the count of the others.
KeptCount == Min(Len(args.sources), args.keep_recent)

LastKept == SubSeq(args.sources, Len(args.sources) - KeptCount + 1, Len(args.sources))

\* C14: when compaction activates on n sources with keep_recent = k >= 0, the
\* presented list is the last min(n, k) sources in their order, the header
\* states n - min(n, k) omitted sources, and presented + omitted = n; for
\* n = 10 and k = 4, the 4 last sources under "omitted 6 older sources".
C14_KeepsLastSources ==
    /\ pc = "compacted"
       => /\ response.sources = LastKept
          /\ response.omitted = Len(args.sources) - KeptCount
          /\ Len(response.sources) + response.omitted = Len(args.sources)
    /\ (pc = "synthesis_built" /\ response.compacted)
       => /\ response.sources = LastKept
          /\ response.omitted = Len(args.sources) - KeptCount
          /\ StartsWith(response.text, OmittedHeader(Len(args.sources) - KeptCount))
    /\ (pc = "synthesis_built" /\ response.compacted
          /\ Len(args.sources) = 10 /\ args.keep_recent = 4)
       => /\ response.sources = SubSeq(args.sources, 7, 10)
          /\ StartsWith(response.text,
                        << "(", "o", "m", "i", "t", "t", "e", "d", " ", "6", " ",
                           "o", "l", "d", "e", "r", " ", "s", "o", "u", "r", "c",
                           "e", "s" >>)

\* The reflection the reflect stage has just parsed.
LatestReflection == st.trace.reflections[Len(st.trace.reflections)]

\* One step in which the storage-focus (growth-rate) heuristic fires: it is
\* the end of a reflect stage whose reflection declared sufficient = true,
\* the trigger holds for the task, the coverage is missing from the
\* accumulated sources and degraded mode is not active.
StorageFiresOnlyWhenDue ==
    hist'.storage_fires > hist.storage_fires
        => /\ pc = "reflect"
           /\ Len(st'.trace.reflections) = Len(st.trace.reflections) + 1
           /\ LatestReflection'.sufficient
           /\ _storage_focus_required(st.user_task)
           /\ _storage_focus_missing(st.all_sources)
           /\ ~st.degraded_mode

GrowthFiresOnlyWhenDue ==
    hist'.growth_fires > hist.growth_fires
        => /\ pc = "reflect"
           /\ Len(st'.trace.reflections) = Len(st.trace.reflections) + 1
           /\ LatestReflection'.sufficient
           /\ _growth_required(st.user_task)
           /\ ~_growth_covered(st.all_sources)
           /\ ~st.degraded_mode

InReflectedIteration ==
    /\ pc \in {"search", "retry", "search_end"}
    /\ st.trace.reflections # <<>>
    /\ ~LatestReflection.sufficient

\* The new queries of the latest reflection, the first max_queries of them,
\* normalized, without the empty ones.
ReflectedQueries ==
    LET new_queries == LatestReflection.new_queries
        capped      == SubSeq(new_queries, 1, Min(Len(new_queries), st.max_queries))
    IN  { _normalize_query(capped[i].query) : i \in DOMAIN capped } \ { <<>> }

\* The iteration's query list is those queries, each once whatever its case.
ListsReflectedQueries ==
    /\ \A i \in DOMAIN st.queries : st.queries[i].query \in ReflectedQueries
    /\ \A t \in ReflectedQueries :
          \E i \in DOMAIN st.queries : Lower(st.queries[i].query) = Lower(t)
    /\ \A i, k \in DOMAIN st.queries :
          Lower(st.queries[i].query) = Lower(st.queries[k].query) => i = k
    /\ Len(st.queries) <= st.max_queries

\* The queries the iteration has executed are the first ones of its list.
ExecutedInIteration ==
    SubSeq(st.executed_queries,
           Len(st.executed_queries) - hist.iter_queries + 1, Len(st.executed_queries))

ExecutesListInOrder ==
    /\ hist.iter_queries <= Len(st.queries)
    /\ ExecutedInIteration = [i \in 1..hist.iter_queries |-> st.queries[i].query]

\* The end of a reflect stage that parsed its reflection and fired no
\* heuristic: where the loop goes.
AfterPlainReflection ==
    (/\ pc = "reflect"
     /\ Len(st'.trace.reflections) = Len(st.trace.reflections) + 1
     /\ hist'.storage_fires = hist.storage_fires
     /\ hist'.growth_fires = hist.growth_fires)
        => /\ LatestReflection'.sufficient => pc' = "synthesize"
           /\ (~LatestReflection'.sufficient /\ LatestReflection'.new_queries = <<>>)
                 => pc' = "synthesize"
           /\ (~LatestReflection'.sufficient /\ ~st.degraded_mode
                  /\ LatestReflection'.new_queries # <<>>)
                 => /\ pc' = "loop"
                    /\ st'.pending_queries # <<>>

\* From the loop head with pending queries and iterations left the search of
\* them begins, and from the synthesis no search or reflection follows.
NextCall ==
    /\ (pc = "loop" /\ st.pending_queries # <<>> /\ ~st.degraded_mode
          /\ st.iterations_run < st.max_iters)
         => pc' \in {"search", "search_end"}
    /\ pc = "synthesize" => pc' \in {"returned", "raised"}

HasRisk(text) == \E i \in 1..Len(response.risks) : response.risks[i] = text

DegradedRisk == HasRisk("Search degraded; answer may be based on partial information.")

OmittedRisk == HasRisk("Some sources were omitted due to context budget limits.")

InvalidCitationRisk == HasRisk("Some citations were invalid and were omitted.")

NoAuthoritativeRisk == HasRisk("No top-tier analyst or major tech news sources found.")

\* A cited id is absent from the id map of the presented sources.
CitedIdAbsent ==
    \E j \in 1..Len(DeclaredCitations) : DeclaredCitations[j].id \notin PresentedIds

\* No accumulated source's location matches a trusted domain.
NoTrustedSource ==
    \A i \in 1..Len(st.all_sources) :
        \A domain \in AuthoritativeDomains :
            ~Contains(Lower(st.all_sources[i].location), domain)

\* C17: in a successful response the risks list holds the degraded-search
\* risk iff degraded mode was active, the omitted-sources risk iff a
\* reflection or synthesis presentation omitted sources by compaction, the
\* invalid-citation risk iff a cited id was absent from the id map, and the
\* no-authoritative-source risk iff no accumulated source's location matches
\* a trusted domain.
C17_RisksIffConditions ==
    ReturnedSynthesis =>
        /\ DegradedRisk <=> st.degraded_mode
        /\ OmittedRisk <=> hist.sources_dropped
        /\ InvalidCitationRisk <=> CitedIdAbsent
        /\ NoAuthoritativeRisk <=> NoTrustedSource

\* C18: concurrent runs share no mutable state but the cache store: the trace
\* record of a run is written only by the run that owns it, so that no run
\* overwrites or alters the trace of another, whatever the tasks of the two
\* runs.
C18_TraceOwnedByOneRun ==
    [][\A id \in DOMAIN traces :
          id \in DOMAIN traces' /\ traces'[id].writer = traces[id].writer]_vars

\* The last write to the file of a key, and the runs at their end.
LastWrite(key) ==
    LET of_key == SelectSeq(hist.writes, LAMBDA w : w.key = key)
    IN  of_key[Len(of_key)]

AllRunsDone == \A r \in 1..MaxConcurrent : pc[r] = "done"

\* A run that takes its result from the cache takes a complete entry that
\* some run wrote.
ReadsCompleteEntry ==
    \A r \in 1..MaxConcurrent :
        (pc[r] = "lookup" /\ pc'[r] = "trace")
            => \E i \in 1..Len(hist.writes) :
                  /\ hist.writes[i].key = PlanKey(st[r])
                  /\ response'[r] = [content |-> hist.writes[i].payload]

\* C19: when concurrent runs read and write one cache key, a reader observes
\* absence (a miss) or a complete entry written by one writer, never a
\* partially written or mixed entry used as a result, and once all writes
\* have completed the key holds the complete entry of the last writer.
C19_LastWriterWins ==
    /\ [][ReadsCompleteEntry]_vars
    /\ [](AllRunsDone =>
            \A key \in DOMAIN llm_cache :
                llm_cache[key] = json_dumps(LastWrite(key).payload))

\* The entry a search that ends leaves under the query's key holds the pair
\* _search_with_retry returned.
ReturnedPair == search_cache'[SearchKey(st, CurrentQuery)]

SearchEnds == pc = "retry" /\ pc' # "retry"

RaisedEntry == [phase |-> "search", query |-> CurrentQuery, error |-> "search failed"]

\* One attempt of _search_with_retry.
RetryStep ==
    pc = "retry" =>
        /\ hist.query_attempts < DEFAULT_MAX_RETRIES
        /\ pc' # "raised"
        /\ hist'.last_attempt \in {"raised", "empty", "results"}
        /\ hist'.last_attempt = "results"
              => /\ SearchEnds
                 /\ ~ReturnedPair.failed
                 /\ ReturnedPair.results # <<>>
        /\ hist'.last_attempt = "raised"
              => st'.error_log = Append(st.error_log, RaisedEntry)
        /\ hist'.last_attempt # "raised" => st'.error_log = st.error_log
        /\ (hist'.last_attempt # "results"
               /\ hist.query_attempts < DEFAULT_MAX_RETRIES - 1)
              => pc' = "retry"
        /\ (hist'.last_attempt # "results"
               /\ hist.query_attempts = DEFAULT_MAX_RETRIES - 1)
              => /\ SearchEnds
                 /\ ReturnedPair.failed
                 /\ ReturnedPair.results = <<>>

\* While the retry loop goes on, every attempt made so far raised or
\* returned nothing.
RetriesFollowMisses ==
    (pc = "retry" /\ hist.query_attempts > 0) => hist.last_attempt \in {"raised", "empty"}

\* C20: _search_with_retry makes at most 3 attempts for a query, stops at the
\* first attempt that returns a non-empty result, never raises on a search
\* exception (each goes to the error ledger), and returns failed = true
\* exactly when every attempt raised or returned empty, the results then
\* being empty.
C20_RetryContract == [][RetryStep]_vars /\ []RetriesFollowMisses

\* A search gave up after three attempts of which some raised and some
\* returned nothing.
C20_Witness ==
    /\ pc \in {"search", "search_end"}
    /\ hist.outcomes = << 0 >>
    /\ hist.last_attempt = "empty"
    /\ Len(st.error_log) \in 1..2
    /\ search_cache # <<>>
    /\ \A key \in DOMAIN search_cache : search_cache[key].failed

\* The executed queries that ended with zero results, and those at the end of
\* the run so far.
EmptyCount == Cardinality({ i \in 1..Len(hist.outcomes) : hist.outcomes[i] = 0 })

TrailingEmpty ==
    LET n == Len(hist.outcomes)
    IN  Cardinality({ k \in 1..n : \A i \in (n - k + 1)..n : hist.outcomes[i] = 0 })

\* At least four queries were executed and at least half of all ended with
\* zero results.
HalfEmpty == Len(hist.outcomes) >= 4 /\ 2 * EmptyCount >= Len(hist.outcomes)

\* Degraded mode becomes active in the step that ends an executed query.
DegradedByQuery ==
    (~st.degraded_mode /\ st'.degraded_mode)
        => /\ pc \in {"search", "retry"}
           /\ Len(hist'.outcomes) = Len(hist.outcomes) + 1
           /\ LastThreeEmpty' \/ HalfEmpty'

\* C21: degraded mode is active exactly when the last three executed queries
\* all ended with zero results or at least four queries were executed and at
\* least half of them ended with zero results; it becomes active at the
\* query that makes one of the two hold; a query with one or two results is
\* no failure for the two counts and resets the consecutive-failure count.
C21_DegradedIffThreshold ==
    /\ [](st.degraded_mode <=> (LastThreeEmpty \/ HalfEmpty))
    /\ [](st.failed_count = EmptyCount /\ st.consecutive_failures = TrailingEmpty)
    /\ [](st.total_queries = Len(hist.outcomes) \/ pc = "retry")
    /\ [][DegradedByQuery]_vars

\* Degraded mode entered by the ratio alone, in a run where a query with
\* fewer than MIN_RESULTS_PER_QUERY results came between the failures.
C21_Witness ==
    /\ st.degraded_mode
    /\ HalfEmpty
    /\ ~LastThreeEmpty
    /\ \E i \in 1..Len(hist.outcomes) :
          /\ hist.outcomes[i] \in 1..(MIN_RESULTS_PER_QUERY - 1)
          /\ i < Len(hist.outcomes)
          /\ hist.outcomes[i + 1] = 0
          /\ st.consecutive_failures < st.failed_count

\* One step of a run in which degraded mode is active: no query is started
\* or attempted, no plan stage is entered, no heuristic fires, and the run
\* goes neither back to the loop head nor into a search round.
QuietWhenDegraded ==
    (st.degraded_mode /\ Running)
        => /\ st'.executed_queries = st.executed_queries
           /\ st'.total_queries = st.total_queries
           /\ hist'.outcomes = hist.outcomes
           /\ hist'.plan_stages = hist.plan_stages
           /\ hist'.storage_fires = hist.storage_fires
           /\ hist'.growth_fires = hist.growth_fires
           /\ st'.pending_queries = st.pending_queries
           /\ st'.iterations_run = st.iterations_run
           /\ pc' \notin {"loop", "plan", "search", "retry", "search_end"}
           /\ st'.degraded_mode

\* C22: once degraded mode is active, no further search query is executed in
\* the run (the rest of the round's list is abandoned), no planning call is
\* made, no heuristic fires and no new iteration's search round is started.
C22_DegradedStopsSearching == [][QuietWhenDegraded]_vars

\* A run that entered degraded mode with iterations left, whose reflection
\* then declared sufficient = true with the storage coverage missing for a
\* task that asks for it, and that returned its synthesis.
C22_Witness ==
    /\ pc = "returned"
    /\ st.degraded_mode
    /\ st.trace.reflections # <<>>
    /\ LatestReflection.sufficient
    /\ st.storage_focus_required
    /\ _storage_focus_missing(st.all_sources)
    /\ ~st.storage_focus_forced
    /\ st.iterations_run < st.max_iters
    /\ hist.synth_stages = 1

\* One step of a run in which degraded mode is active enters no reflect
\* stage (neither the model call nor the lookup of a cached reflection);
\* steps in which the model call raises are left aside.
NoReflectionWhenDegraded ==
    (st.degraded_mode /\ Running /\ ~hist'.model_raised)
        => hist'.reflect_stages = hist.reflect_stages

\* A run that returned in degraded mode has entered the synthesize stage.
DegradedRunSynthesized ==
    (st.degraded_mode /\ pc = "returned") => hist.synth_stages = 1

\* C23: once degraded mode is active the run proceeds straight to synthesis:
\* the next model call after degraded mode is entered is the synthesis call,
\* with no reflection call in between, and a run that entered degraded mode
\* does not return without having made the synthesis call.
C23_StraightToSynthesis ==
    /\ [][NoReflectionWhenDegraded]_vars
    /\ []DegradedRunSynthesized

\* The step in which a heuristic fires: the reflection declared sufficient =
\* true, and yet the run goes back to the loop head with the heuristic's
\* fallback queries, the first max_queries of them, pending.
HeuristicContinues ==
    /\ hist'.storage_fires > hist.storage_fires
          => /\ LatestReflection'.sufficient
             /\ pc' = "loop"
             /\ st'.pending_queries =
                   PySliceTo(_storage_focus_query_fallback, st.max_queries)
    /\ hist'.growth_fires > hist.growth_fires
          => /\ LatestReflection'.sufficient
             /\ pc' = "loop"
             /\ st'.pending_queries =
                   PySliceTo(_growth_query_fallback(st.user_task), st.max_queries)

\* The loop head after a heuristic fired: the latest reflection declared
\* sufficient = true and queries are pending.
AtHeuristicLoopHead ==
    /\ pc = "loop"
    /\ st.pending_queries # <<>>
    /\ st.trace.reflections # <<>>
    /\ LatestReflection.sufficient

\* The search round of the pending queries starts, without a plan stage.
StartsPendingRound ==
    /\ pc' \in {"search", "search_end"}
    /\ hist'.plan_stages = hist.plan_stages
    /\ st'.queries = _dedupe_sort_queries(st.pending_queries)
    /\ Len(st'.queries) <= st.max_queries

\* The iteration runs on the queries a heuristic injected: only a heuristic
\* continues the loop after a reflection that declared sufficient = true.
InHeuristicRound ==
    /\ pc \in {"search", "retry", "search_end"}
    /\ st.trace.reflections # <<>>
    /\ LatestReflection.sufficient

\* C24 as stated: whenever a heuristic fires, the loop continues although the
\* model declared sufficient = true, and the heuristic's fallback query set,
\* capped at max_queries, is executed as the next search round, without a
\* fresh plan call, before the synthesis call is made.
C24_FallbackRoundExecuted ==
    /\ [][HeuristicContinues]_vars
    /\ [][AtHeuristicLoopHead => StartsPendingRound]_vars
    /\ [](InHeuristicRound => ExecutesListInOrder)
    /\ []((InHeuristicRound /\ pc = "search_end")
             => hist.iter_queries = Len(st.queries))

\* C24 amended: the same when the iteration cap is not reached at the moment
\* the heuristic fires, the round executing the set until it is exhausted or
\* degraded mode becomes active; a heuristic that fires in the last iteration
\* is followed by the synthesis call with no search round.
C24_FallbackRoundUnlessCapped ==
    /\ [][HeuristicContinues]_vars
    /\ [][AtHeuristicLoopHead
            => IF st.iterations_run < st.max_iters
               THEN StartsPendingRound
               ELSE pc' = "synthesize" /\ hist' = hist]_vars
    /\ [](InHeuristicRound => ExecutesListInOrder)
    /\ []((InHeuristicRound /\ pc = "search_end")
             => (hist.iter_queries = Len(st.queries) \/ st.degraded_mode))

\* A round of two fallback queries that a heuristic injected, executed in
\* full after a single plan stage, with the synthesis still to come.
C24_Witness ==
    /\ InHeuristicRound
    /\ pc = "search_end"
    /\ hist.storage_fires + hist.growth_fires = 1
    /\ Len(st.queries) = 2
    /\ hist.iter_queries = 2
    /\ hist.plan_stages = 1
    /\ hist.synth_stages = 0

\* A plan stage (model call or lookup of the cached plan) is entered from a
\* loop head that found no pending queries, in the first iteration.
PlansOnlyWithoutPending ==
    /\ (pc = "loop" /\ pc' = "plan")
          => st.pending_queries = <<>> /\ st'.iterations_run = 1
    /\ hist'.plan_stages > hist.plan_stages
          => /\ pc = "plan"
             /\ st.pending_queries = <<>>
             /\ st.iterations_run = 1
             /\ hist'.plan_stages = hist.plan_stages + 1
    /\ (Running /\ pc' = "plan") => pc = "loop"

\* A loop head that finds pending queries and an iteration left enters the
\* search of them directly.
PendingEntersSearch ==
    (pc = "loop" /\ st.pending_queries # <<>> /\ st.iterations_run < st.max_iters)
        => /\ pc' \in {"search", "search_end"}
           /\ st'.pending_queries = <<>>
           /\ hist'.plan_stages = hist.plan_stages
           /\ hist'.model_calls = hist.model_calls

\* Every iteration after the first starts with queries pending.
LaterIterationsHavePending ==
    (pc = "loop" /\ st.iterations_run >= 1) => st.pending_queries # <<>>

\* C25: a planning call (model call or plan cache lookup) happens only in an
\* iteration that starts with no pending queries; an iteration that starts
\* with pending queries injected by the reflection or by a heuristic enters
\* search directly; so, max_queries being at least 1, planning happens at
\* most once per run, in the first iteration.
C25_PlanOnlyWithoutPending ==
    /\ [][PlansOnlyWithoutPending /\ PendingEntersSearch]_vars
    /\ [](st.max_queries >= 1 => (LaterIterationsHavePending /\ hist.plan_stages <= 1))

\* The second iteration of a run, searching the new queries of a reflection,
\* with the one plan stage of the first iteration behind it.
C25_Witness ==
    /\ pc = "search"
    /\ st.iterations_run = 2
    /\ hist.plan_stages = 1
    /\ st.trace.reflections # <<>>
    /\ ~LatestReflection.sufficient
    /\ st.pending_queries = <<>>
    /\ st.max_queries >= 1

\* The trace record the run persisted under its run id.
PersistedTrace == traces[st.run_id]

\* Every element of the list is an element of the other list.
Holds(list, elements) ==
    \A i \in DOMAIN elements : \E k \in DOMAIN list : list[k] = elements[i]

\* C26: the trace record persisted by a run, on the success path and on
\* every fatal path alike, contains every search query executed so far and
\* every source collected so far in that run, together with every reflection
\* recorded so far.
C26_TraceHoldsProgress ==
    (pc = "returned" /\ hist.trace_writes >= 1)
        => /\ Holds(PersistedTrace.queries, st.executed_queries)
           /\ Holds(PersistedTrace.sources,
                    [i \in DOMAIN st.all_sources |-> model_dump(st.all_sources[i])])
           /\ PersistedTrace.reflections = st.trace.reflections

\* No source of the list has a location that holds a block-listed domain
\* (whatever its case) or is empty, and no two sources share a location.
CleanSources(sources) ==
    /\ \A i \in DOMAIN sources :
          /\ ~\E domain \in LOW_QUALITY_DOMAINS :
                 \/ Contains(sources[i].location, domain)
                 \/ Contains(Lower(sources[i].location), domain)
          /\ sources[i].location # <<>>
    /\ \A i, k \in DOMAIN sources :
          sources[i].location = sources[k].location => i = k

\* The results of the current round's queries, as counted when they ended.
RoundOutcomes ==
    SubSeq(hist.outcomes, Len(hist.outcomes) - hist.iter_queries + 1,
           Len(hist.outcomes))

\* C27: at every reflection call and at the synthesis call the accumulated
\* source list holds no source whose location contains a block-listed
\* low-quality domain, no source with an empty location and no two sources
\* with the same location, also when the search round ended early by a
\* degraded-mode break.
C27_SourcesCleanAtCalls ==
    pc \in {"reflect", "synthesize"} => CleanSources(st.all_sources)

\* A reflect stage after a round that degraded mode cut short, one of whose
\* queries had returned a block-listed source and two sources of one
\* location.
C27_Witness ==
    /\ pc = "reflect"
    /\ st.degraded_mode
    /\ hist.iter_queries < Len(st.queries)
    /\ \E i \in DOMAIN RoundOutcomes : RoundOutcomes[i] = 3
    /\ st.all_sources # <<>>

\* The first list is the beginning of the second, the first list its end.
IsPrefix(first, list) ==
    Len(first) <= Len(list) /\ first = SubSeq(list, 1, Len(first))

IsSuffix(last, list) ==
    /\ Len(last) <= Len(list)
    /\ last = SubSeq(list, Len(list) - Len(last) + 1, Len(list))

\* The filter/dedup step that ends a search round keeps the list of the
\* round before as the beginning of its result.
RoundKeepsEarlierSources ==
    pc = "search_end" => IsPrefix(hist.round_sources, st'.all_sources)

\* Between two such steps the list only grows at its end, and outside the
\* search round it is the list the last round left.
GrowsAtEnd ==
    /\ IsPrefix(hist.round_sources, st.all_sources)
    /\ pc \in {"loop", "plan", "reflect", "synthesize", "returned"}
          => st.all_sources = hist.round_sources

\* C28: the accumulated source list is append-only across iterations: the
\* list after the filter/dedup step of one search round is a prefix of the
\* list after the filter/dedup step of every later round of the run (no
\* earlier source is removed or reordered), so that the most recent sources,
\* which compaction keeps, are the last discovered ones.
C28_SourcesAppendOnly ==
    /\ [][RoundKeepsEarlierSources]_vars
    /\ []GrowsAtEnd
    /\ [](pc = "synthesize"
             => IsSuffix(SynthesisPresentation(st).sources, st.all_sources))

\* The second round is about to end: the first round left a source, and
\* the second found it again and a new one besides.
C28_Witness ==
    /\ pc = "search_end"
    /\ st.iterations_run = 2
    /\ hist.round_sources # <<>>
    /\ Len(_dedupe_sources(_filter_sources(st.all_sources))) > Len(hist.round_sources)
    /\ \E i \in (Len(hist.round_sources) + 1)..Len(st.all_sources) :
          st.all_sources[i] = hist.round_sources[1]

\* The positions of the input that hold the first occurrence of a non-empty
\* location.
FirstOccurrences ==
    { i \in DOMAIN args.sources :
        /\ args.sources[i].location # <<>>
        /\ \A k \in 1..(i - 1) :
              args.sources[k].location # args.sources[i].location }

\* The position of the input that comes j-th among them.
NthFirstOccurrence(j) ==
    CHOOSE p \in FirstOccurrences :
        Cardinality({ q \in FirstOccurrences : q <= p }) = j

\* C29: _dedupe_sources preserves discovery order: its output is the
\* subsequence of its input that holds, for each distinct non-empty location,
\* exactly the first occurrence in the input; every later source with that
\* location (and every source without a location) is dropped.
C29_DedupeKeepsFirstInOrder ==
    pc = "deduped"
        => /\ Len(response.deduped) = Cardinality(FirstOccurrences)
           /\ \A j \in DOMAIN response.deduped :
                 response.deduped[j] = args.sources[NthFirstOccurrence(j)]

\* An input of three sources in which a location occurs twice, with
\* different titles, before a source of another location: the output is the
\* first of the two and the other source.
C29_Witness ==
    /\ pc = "deduped"
    /\ Len(args.sources) = 3
    /\ args.sources[1].location = args.sources[2].location
    /\ args.sources[1] # args.sources[2]
    /\ args.sources[1].location # <<>>
    /\ args.sources[3].location \notin { <<>>, args.sources[1].location }
    /\ response.deduped = << args.sources[1], args.sources[3] >>

====
